---- MODULE Spec2Model ----
(***************************************************************************)
(* Insurance_db: the OCR text-recovery and field-extraction pipeline       *)
(* (src/ocr/*.py).  Text is a sequence of one-character strings; the       *)
(* regular expressions of the source are transcribed as syntax trees and   *)
(* run by a backtracking matcher with Python's priorities (leftmost match, *)
(* greedy and lazy quantifiers, alternation in order).                     *)
(***************************************************************************)
EXTENDS Integers, Sequences, FiniteSets, TLC

\* ------------------------------------------------------------------ text

\* A string literal as a sequence of one-character strings.
S(str) == [i \in 1..Len(str) |-> SubSeq(str, i, i)]

UpperSeq == S("ABCDEFGHIJKLMNOPQRSTUVWXYZ")
LowerSeq == S("abcdefghijklmnopqrstuvwxyz")
Upper == {UpperSeq[i] : i \in 1..26}
Lower == {LowerSeq[i] : i \in 1..26}
Letters == Upper \cup Lower
Digits == {"0", "1", "2", "3", "4", "5", "6", "7", "8", "9"}
\* str.isspace and the regex class \s, over the characters of the model
Space == {" ", "\n", "\t", "\r"}
\* the regex class \w
Word == Letters \cup Digits \cup {"_"}

ToUpper(c) == IF c \in Lower THEN UpperSeq[CHOOSE i \in 1..26 : LowerSeq[i] = c] ELSE c
ToLower(c) == IF c \in Upper THEN LowerSeq[CHOOSE i \in 1..26 : UpperSeq[i] = c] ELSE c
\* str.upper
UpperStr(s) == [i \in 1..Len(s) |-> ToUpper(s[i])]
\* the closure of a character set under re.IGNORECASE
CI(cs) == cs \cup {ToUpper(c) : c \in cs} \cup {ToLower(c) : c \in cs}

\* the least i in lo..hi with P(i), and hi + 1 when there is none
First(lo, hi, P(_)) ==
    IF \E i \in lo..hi : P(i)
    THEN CHOOSE i \in lo..hi : P(i) /\ \A j \in lo..(i - 1) : ~P(j)
    ELSE hi + 1
\* the k-th smallest member of a set of numbers
Nth(ps, k) == CHOOSE x \in ps : Cardinality({y \in ps : y < x}) = k - 1

StartsWithAt(s, i, k) ==
    /\ i + Len(k) - 1 <= Len(s)
    /\ \A j \in 1..Len(k) : s[i + j - 1] = k[j]
\* k in s
Contains(s, k) == \E i \in 1..(Len(s) + 1) : StartsWithAt(s, i, k)

RECURSIVE ReplaceFrom(_, _, _, _)
\* str.replace(k, v) from position i on: the leftmost occurrence is
\* replaced and the scan goes on behind it, so occurrences do not overlap
\* and the replacement text is never rescanned.
ReplaceFrom(s, i, k, v) ==
    LET p == First(i, Len(s), LAMBDA q : StartsWithAt(s, q, k))
    IN IF p > Len(s) THEN SubSeq(s, i, Len(s))
       ELSE SubSeq(s, i, p - 1) \o v \o ReplaceFrom(s, p + Len(k), k, v)

\* str.replace(k, v), k non-empty; character for character it is pointwise
Replace(s, k, v) ==
    IF Len(k) = 1 /\ Len(v) = 1
    THEN [i \in 1..Len(s) |-> IF s[i] = k[1] THEN v[1] ELSE s[i]]
    ELSE ReplaceFrom(s, 1, k, v)

RECURSIVE ReplaceAll(_, _, _)
\* the loop "for k, v in table: text = text.replace(k, v)" from rule n on
\* (no rule changes the empty text)
ReplaceAll(s, table, n) ==
    IF s = <<>> \/ n > Len(table) THEN s
    ELSE ReplaceAll(Replace(s, S(table[n][1]), S(table[n][2])), table, n + 1)

\* s.replace(c, "") for each character c of cs, and its complement:
\* re.sub(r"[^...]", "", s)
RemoveChars(s, cs) == SelectSeq(s, LAMBDA c : c \notin cs)
KeepChars(s, cs) == SelectSeq(s, LAMBDA c : c \in cs)

\* str.strip(chars)
StripChars(s, cs) ==
    LET a == First(1, Len(s), LAMBDA i : s[i] \notin cs)
        b == Len(s) + 1 - First(1, Len(s), LAMBDA i : s[Len(s) + 1 - i] \notin cs)
    IN SubSeq(s, a, b)
\* str.strip()
Strip(s) == StripChars(s, Space)

\* the pieces of s around the separator positions seps
Pieces(s, seps) ==
    LET n == Cardinality(seps)
    IN [k \in 1..(n + 1) |->
           SubSeq(s, IF k = 1 THEN 1 ELSE Nth(seps, k - 1) + 1,
                     IF k = n + 1 THEN Len(s) ELSE Nth(seps, k) - 1)]
\* str.split(sep) for a one-character separator
Split(s, sep) == Pieces(s, {i \in 1..Len(s) : s[i] = sep})

\* str.splitlines: "\n", "\r" and "\r\n" end a line, and there is no empty
\* line after the last line end
SplitLines(s) ==
    LET ends == {i \in 1..Len(s) :
                    \/ s[i] = "\n"
                    \/ s[i] = "\r" /\ ~(i < Len(s) /\ s[i + 1] = "\n")}
        raw == Pieces(s, ends)
        lines == [k \in 1..Len(raw) |-> RemoveChars(raw[k], {"\r"})]
    IN IF lines[Len(lines)] = <<>> THEN SubSeq(lines, 1, Len(lines) - 1) ELSE lines

\* str.split() with no argument: the maximal runs of non-space characters
SplitWs(s) ==
    LET starts == {i \in 1..Len(s) : s[i] \notin Space /\ (i = 1 \/ s[i - 1] \in Space)}
        stops == {i \in 1..Len(s) : s[i] \notin Space /\ (i = Len(s) \/ s[i + 1] \in Space)}
    IN [k \in 1..Cardinality(starts) |-> SubSeq(s, Nth(starts, k), Nth(stops, k))]

RECURSIVE JoinRange(_, _, _, _)
JoinRange(parts, lo, hi, sep) ==
    IF lo > hi THEN <<>>
    ELSE IF lo = hi THEN parts[lo]
    ELSE LET mid == (lo + hi) \div 2
         IN JoinRange(parts, lo, mid, sep) \o sep \o JoinRange(parts, mid + 1, hi, sep)
\* sep.join(parts)
Join(parts, sep) == JoinRange(parts, 1, Len(parts), sep)

\* [f(x) for x in xs]
MapSeq(xs, F(_)) == [i \in 1..Len(xs) |-> F(xs[i])]
\* [x for x in xs if x]
NonEmpty(xs) == SelectSeq(xs, LAMBDA x : x # <<>>)
\* s[:n] and s[n:]
Take(s, n) == SubSeq(s, 1, n)
Drop(s, n) == SubSeq(s, n + 1, Len(s))

\* A local variable of the code: "name = value", then the statements that
\* read it, written Bind(value, LAMBDA name : ...).
Bind(value, Rest(_)) == Rest(value)

\* ----------------------------------------------------- regular expressions

\* [abc] and [^abc]
In(cs) == [t |-> "set", s |-> cs]
NotIn(cs) == [t |-> "nset", s |-> cs]
\* . without and with re.DOTALL
Dot == NotIn({"\n"})
DotAll == NotIn({})
\* a literal string, case-sensitive and under re.IGNORECASE
Lit(str) == [t |-> "lit", cs |-> [i \in 1..Len(str) |-> {SubSeq(str, i, i)}]]
LitI(str) == [t |-> "lit", cs |-> [i \in 1..Len(str) |-> CI({SubSeq(str, i, i)})]]
Cat(xs) == [t |-> "cat", xs |-> xs]
Alt(xs) == [t |-> "alt", xs |-> xs]
\* x{lo,hi} greedy and lazy; hi = -1 is "no upper limit"
Rep(x, lo, hi) == [t |-> "rep", x |-> x, lo |-> lo, hi |-> hi, greedy |-> TRUE]
Lazy(x, lo, hi) == [t |-> "rep", x |-> x, lo |-> lo, hi |-> hi, greedy |-> FALSE]
Star(x) == Rep(x, 0, -1)
Plus(x) == Rep(x, 1, -1)
Opt(x) == Rep(x, 0, 1)
\* capture group n, and (?=x)
Grp(n, x) == [t |-> "grp", n |-> n, x |-> x]
Look(x) == [t |-> "look", x |-> x]
\* ^ and $ without re.MULTILINE, \Z, \b
Bol == [t |-> "bol"]
Eol == [t |-> "eol"]
EndZ == [t |-> "endz"]
WordB == [t |-> "wordb"]

\* no match; a match is [ok, start, end, caps]: the text matched is
\* s[start] .. s[end - 1], and caps[n] is the span of group n, <<0, 0>> for
\* a group that took no part
Fail == [ok |-> FALSE, start |-> 0, end |-> 0, caps |-> <<<<0, 0>>, <<0, 0>>, <<0, 0>>>>]

RECURSIVE Match(_, _, _, _)
\* The backtracking matcher: `stack` is what is left of the pattern, i the
\* position in s (the next character is s[i]).  The alternatives are tried
\* in Python's order and the first one that lets the rest of the pattern
\* match decides; a capture set on an abandoned alternative is forgotten.
\* A quantified character class takes its counts in order, the longest run
\* first when greedy and the shortest first when lazy.
Match(stack, s, i, caps) ==
    IF stack = <<>> THEN [ok |-> TRUE, start |-> 0, end |-> i, caps |-> caps]
    ELSE
    LET h == Head(stack)
        rest == Tail(stack)
        fits(x, c) == IF x.t = "set" THEN c \in x.s ELSE c \notin x.s
        wordAt(p) == p >= 1 /\ p <= Len(s) /\ s[p] \in Word
    IN CASE h.t = "lit" ->
              IF /\ i + Len(h.cs) - 1 <= Len(s)
                 /\ \A j \in 1..Len(h.cs) : s[i + j - 1] \in h.cs[j]
              THEN Match(rest, s, i + Len(h.cs), caps) ELSE Fail
         [] h.t \in {"set", "nset"} ->
              IF i <= Len(s) /\ fits(h, s[i]) THEN Match(rest, s, i + 1, caps) ELSE Fail
         [] h.t = "cat" -> Match(h.xs \o rest, s, i, caps)
         [] h.t = "alt" ->
              IF h.xs = <<>> THEN Fail
              ELSE LET first == Match(<<Head(h.xs)>> \o rest, s, i, caps)
                   IN IF first.ok THEN first
                      ELSE Match(<<Alt(Tail(h.xs))>> \o rest, s, i, caps)
         [] h.t = "rep" /\ h.x.t \in {"set", "nset"} ->
              LET left == Len(s) - i + 1
                  most == IF h.hi < 0 \/ h.hi > left THEN left ELSE h.hi
                  run == First(0, most - 1, LAMBDA n : ~fits(h.x, s[i + n]))
                  count(n) == IF h.greedy THEN run + 1 - n ELSE h.lo + n - 1
                  tries == [n \in 1..(run - h.lo + 1) |->
                               Match(rest, s, i + count(n), caps)] \o <<>>
                  hit == First(1, Len(tries), LAMBDA n : tries[n].ok)
              IN IF run < h.lo \/ hit > Len(tries) THEN Fail ELSE tries[hit]
         [] h.t = "rep" /\ h.x.t \notin {"set", "nset"} ->
              LET again == [h EXCEPT !.lo = IF h.lo > 0 THEN h.lo - 1 ELSE 0,
                                     !.hi = IF h.hi > 0 THEN h.hi - 1 ELSE h.hi]
                  more == IF h.hi = 0 THEN Fail
                          ELSE Match(<<h.x, again>> \o rest, s, i, caps)
                  stop == Match(rest, s, i, caps)
              IN IF h.lo > 0 THEN more
                 ELSE IF h.greedy
                      THEN (IF more.ok THEN more ELSE stop)
                      ELSE (IF stop.ok THEN stop ELSE more)
         [] h.t = "grp" ->
              Match(<<h.x, [t |-> "close", n |-> h.n, at |-> i]>> \o rest, s, i, caps)
         [] h.t = "close" ->
              Match(rest, s, i, [caps EXCEPT ![h.n] = <<h.at, i>>])
         [] h.t = "look" ->
              LET ahead == Match(<<h.x>>, s, i, caps)
              IN IF ahead.ok THEN Match(rest, s, i, ahead.caps) ELSE Fail
         [] h.t = "bol" -> IF i = 1 THEN Match(rest, s, i, caps) ELSE Fail
         [] h.t = "eol" ->
              IF i = Len(s) + 1 \/ (i = Len(s) /\ s[i] = "\n")
              THEN Match(rest, s, i, caps) ELSE Fail
         [] h.t = "endz" -> IF i = Len(s) + 1 THEN Match(rest, s, i, caps) ELSE Fail
         [] h.t = "wordb" ->
              IF wordAt(i - 1) # wordAt(i) THEN Match(rest, s, i, caps) ELSE Fail

\* the match of re at each position of s
Attempts(re, s) ==
    [p \in 1..(Len(s) + 1) |-> [Match(<<re>>, s, p, Fail.caps) EXCEPT !.start = p]] \o <<>>
\* re.match(re, s): a match that starts at the first character
ReMatch(re, s) == [Match(<<re>>, s, 1, Fail.caps) EXCEPT !.start = 1]
\* the leftmost match among `tries` that starts at position i or later
NextMatch(tries, i) ==
    LET p == First(i, Len(tries), LAMBDA q : tries[q].ok)
    IN IF p > Len(tries) THEN Fail ELSE tries[p]
\* re.search(re, s)
Search(re, s) == NextMatch(Attempts(re, s), 1)

\* m.group(0) and m.group(n)
Group0(s, m) == SubSeq(s, m.start, m.end - 1)
Group(s, m, n) == SubSeq(s, m.caps[n][1], m.caps[n][2] - 1)

RECURSIVE MatchesFrom(_, _)
\* the successive non-overlapping matches from position i on; after an
\* empty match the scan moves one character on
MatchesFrom(tries, i) ==
    LET m == NextMatch(tries, i)
    IN IF ~m.ok THEN <<>>
       ELSE <<m>> \o MatchesFrom(tries, IF m.end = m.start THEN m.end + 1 ELSE m.end)
\* re.finditer(re, s)
FindIter(re, s) == MatchesFrom(Attempts(re, s), 1)
\* re.findall(re, s) for a pattern without groups: the matched texts
FindAll(re, s) == MapSeq(FindIter(re, s), LAMBDA m : Group0(s, m))
\* re.split(re, s) for a pattern without groups: the texts between matches
ReSplit(re, s) ==
    LET Between(ms) ==
            [k \in 1..(Len(ms) + 1) |->
                SubSeq(s, IF k = 1 THEN 1 ELSE ms[k - 1].end,
                          IF k = Len(ms) + 1 THEN Len(s) ELSE ms[k].start - 1)]
    IN Between(FindIter(re, s))
\* re.split(re, s)[0]: the text before the first match, all of s without one
SplitHead(re, s) ==
    LET head(m) == IF m.ok THEN SubSeq(s, 1, m.start - 1) ELSE s
    IN head(Search(re, s))
\* re.sub(re, repl, s) for a replacement without group references
Sub(re, repl, s) == Join(ReSplit(re, s), repl)

\* --------------------------------------------------------------- floats

\* A Python float as the code can produce one: infinity, or a finite value
\* >= 0 kept as its decimal digits, ip the integer part without leading
\* zeros and fp the fraction without trailing zeros (1296.20 is "1296" and
\* "2", 0.0 is "" and "").  Decimals of up to 15 significant digits denote
\* distinct doubles, so equality of these records is equality of the floats.
Fin(ip, fp) == [k |-> "fin", ip |-> ip, fp |-> fp]
Inf == [k |-> "inf", ip |-> <<>>, fp |-> <<>>]
Zero == Fin(<<>>, <<>>)
\* what float(s) gives: a value or ValueError
Raised == [k |-> "ValueError", ip |-> <<>>, fp |-> <<>>]

\* The least decimal integer that float() rounds to infinity:
\* 2^1024 - 2^970, half an ulp above the largest double; 309 digits.
FloatOverflow ==
    S("179769313486231580793728971405303415079934132710037826936173") \o
    S("778980444968292764750946649017977587207096330286416692887910") \o
    S("946555547851940402630657488671505820681908902000708383676273") \o
    S("854845817711531764475730270069855571366959622842914819860834") \o
    S("936475292719074168444365510704342711559699508093042880177904") \o
    S("174497792")
\* a digit string without its leading / trailing zeros
NoLeadZeros(ds) ==
    IF \A i \in 1..Len(ds) : ds[i] = "0" THEN <<>>
    ELSE Drop(ds, (CHOOSE i \in 1..Len(ds) :
                      ds[i] # "0" /\ \A j \in 1..(i - 1) : ds[j] = "0") - 1)
NoTrailZeros(ds) ==
    IF \A i \in 1..Len(ds) : ds[i] = "0" THEN <<>>
    ELSE Take(ds, CHOOSE i \in 1..Len(ds) :
                      ds[i] # "0" /\ \A j \in (i + 1)..Len(ds) : ds[j] = "0")

DigitVal(c) == CHOOSE n \in 0..9 : S("0123456789")[n + 1] = c
DigitChr(n) == S("0123456789")[n + 1]

\* a < b for digit strings of the same length
LexLess(a, b) ==
    \E i \in 1..Len(a) :
        /\ DigitVal(a[i]) < DigitVal(b[i])
        /\ \A j \in 1..(i - 1) : a[j] = b[j]
\* a < b for integers written without leading zeros
IntLess(a, b) == Len(a) < Len(b) \/ (Len(a) = Len(b) /\ LexLess(a, b))

\* the double nearest to the decimal ip.fp
MkFloat(ip, fp) ==
    LET i == NoLeadZeros(ip)
    IN IF IntLess(i, FloatOverflow) THEN Fin(i, NoTrailZeros(fp)) ELSE Inf

\* float(s) for the strings the parsers hand to it: digits with at most one
\* decimal point and at least one digit convert, everything else (the empty
\* string, ".", "1.2.3", a left-over letter) raises ValueError.
ParseFloat(s) ==
    LET dots == {i \in 1..Len(s) : s[i] = "."}
    IN IF \/ \E i \in 1..Len(s) : s[i] \notin Digits \cup {"."}
          \/ Cardinality(dots) > 1
          \/ Cardinality(dots) = Len(s)
       THEN Raised
       ELSE IF dots = {} THEN MkFloat(s, <<>>)
            ELSE LET d == CHOOSE i \in dots : TRUE
                 IN MkFloat(Take(s, d - 1), Drop(s, d))

\* "try: return float(s) / except: return 0.0"
FloatOrZero(s) == LET v == ParseFloat(s) IN IF v.k = "ValueError" THEN Zero ELSE v

\* a < b for floats
FLess(a, b) ==
    /\ a.k = "fin"
    /\ \/ b.k = "inf"
       \/ IntLess(a.ip, b.ip)
       \/ /\ a.ip = b.ip
          /\ LET n == IF Len(a.fp) > Len(b.fp) THEN Len(a.fp) ELSE Len(b.fp)
                 pad(x) == x \o [j \in 1..(n - Len(x)) |-> "0"]
             IN LexLess(pad(a.fp), pad(b.fp))

RECURSIVE MaxFloat(_)
\* max(nums), nums non-empty
MaxFloat(vs) ==
    IF Len(vs) = 1 THEN vs[1]
    ELSE LET m == MaxFloat(Tail(vs)) IN IF FLess(vs[1], m) THEN m ELSE vs[1]

\* a + b for digit strings of the same length: the digits of the sum, one
\* more than the operands have.  The carry into place i comes from the
\* nearest place to its right that overflows with only nines in between.
AddDigits(a, b) ==
    LET n == Len(a)
        d(i) == DigitVal(a[i]) + DigitVal(b[i])
        carry(i) == \E j \in (i + 1)..n :
                        d(j) >= 10 /\ \A k \in (i + 1)..(j - 1) : d(k) = 9
        c(i) == IF carry(i) THEN 1 ELSE 0
    IN [i \in 1..(n + 1) |->
            IF i = 1 THEN DigitChr(c(0)) ELSE DigitChr((d(i - 1) + c(i - 1)) % 10)]

\* a + b for floats (exact in decimal; the double sum is the nearest double)
FAdd(a, b) ==
    IF a.k = "inf" \/ b.k = "inf" THEN Inf
    ELSE LET n == IF Len(a.fp) > Len(b.fp) THEN Len(a.fp) ELSE Len(b.fp)
             m == IF Len(a.ip) > Len(b.ip) THEN Len(a.ip) ELSE Len(b.ip)
             wide(x) == [j \in 1..(m - Len(x.ip)) |-> "0"] \o x.ip \o x.fp
                        \o [j \in 1..(n - Len(x.fp)) |-> "0"]
             sum == AddDigits(wide(a), wide(b))
         IN MkFloat(Take(sum, m + 1), Drop(sum, m + 1))

RECURSIVE FSum(_)
\* sum(...) of floats; the sum of nothing is the integer 0
FSum(vs) == IF vs = <<>> THEN Zero ELSE FAdd(vs[1], FSum(Tail(vs)))

\* round(v, 2).  A value with at most two decimals is kept.  Otherwise the
\* third decimal and what follows decide; when they are exactly "5" the
\* decimal is a tie, and the double behind it rounds half-to-even if it is
\* the tie itself (.125, .375, .625, .875) and else to whichever side the
\* double lies on, which the decimal digits do not tell: "either".
Round2(v) ==
    LET round(rest, down, up) ==
            IF DigitVal(rest[1]) < 5 THEN down
            ELSE IF DigitVal(rest[1]) > 5 \/ Len(rest) > 1 THEN up
            ELSE IF v.fp \in {S("125"), S("625")} THEN down
            ELSE IF v.fp \in {S("375"), S("875")} THEN up
            ELSE [k |-> "either", ip |-> down, fp |-> up]
        next(down) == round(Drop(v.fp, 2), down, FAdd(down, Fin(<<>>, S("01"))))
    IN IF v.k = "inf" \/ Len(v.fp) <= 2 THEN v
       ELSE next(MkFloat(v.ip, Take(v.fp, 2)))

\* ------------------------------------------- ocr/debit_note_parser.py

\* the replacements of normalize_text, in the order of the dict
DN_REPLACEMENTS ==
    << <<"OOMEST1C", "DOMESTIC">>, <<"OOMESTIC", "DOMESTIC">>,
       <<"DQMESTIC", "DOMESTIC">>, <<"XELPER", "HELPER">>,
       <<"Roz", "R03">>, <<"Ros", "R03">>, <<"ROZ", "R03">>,
       <<"To1", "(T01)">>, <<"T01)", "(T01)">>,
       <<"CQPY", "COPY">>, <<"C0PY", "COPY">>, <<"COPV", "COPY">>,
       <<"COpy", "COPY">>, <<"CQRY", "COPY">>, <<"CQFY", "COPY">> >>

normalize_text(text) == ReplaceAll(text, DN_REPLACEMENTS, 1)

\* extract_first of the debit-note parser (the flag re.MULTILINE changes
\* nothing for patterns without ^ and $)
dn_extract_first(re, text) ==
    Bind(Search(re, text), LAMBDA m : IF m.ok THEN Strip(Group(text, m, 1)) ELSE <<>>)

\* [O0Q] under re.IGNORECASE, and [.:;]
O0Q == CI({"O", "0", "Q"})
Punct == {".", ":", ";"}

clean_account_number(acc) ==
    LET \* \(+T01\)+
        t01 == Cat(<<Plus(In({"("})), Lit("T01"), Plus(In({")"}))>>)
        \* ([A-Z0-9]{6,10})\s*(\(T01\))?
        base == Cat(<<Grp(1, Rep(In(Upper \cup Digits), 6, 10)),
                      Star(In(Space)), Opt(Grp(2, Lit("(T01)")))>>)
    IN IF acc = <<>> THEN <<>>
       ELSE Bind(Sub(t01, S("(T01)"),
                     Replace(Replace(Replace(UpperStr(acc), S("O"), S("0")),
                                     S("Q"), S("0")), S("S"), S("5"))), LAMBDA normal :
            Bind(Search(base, normal), LAMBDA m :
                IF m.ok THEN Group(normal, m, 1) \o S(" (T01)") ELSE normal))

extract_account_number_dn(text) ==
    LET \* ACC[O0Q]U?N?T\s+N[O0Q][.:;]?\s*([A-Z0-9 ()]+?)(?=\s+(POL|P0L|ENO|CLA)|\Z)
        re == Cat(<<LitI("ACC"), In(O0Q), Opt(LitI("U")), Opt(LitI("N")), LitI("T"),
                    Plus(In(Space)), LitI("N"), In(O0Q), Opt(In(Punct)),
                    Star(In(Space)),
                    Grp(1, Lazy(In(CI(Upper \cup Digits \cup {" ", "(", ")"})), 1, -1)),
                    Look(Alt(<<Cat(<<Plus(In(Space)),
                                     Grp(2, Alt(<<LitI("POL"), LitI("P0L"),
                                                  LitI("ENO"), LitI("CLA")>>))>>),
                               EndZ>>))>>)
    IN Bind(Search(re, text), LAMBDA m :
           clean_account_number(IF m.ok THEN Strip(Group(text, m, 1)) ELSE <<>>))

extract_policy_number(text) ==
    \* POLICY\s+N[O0Q][.:;]?\s*([A-Z0-9\-]{10,})
    dn_extract_first(
        Cat(<<LitI("POLICY"), Plus(In(Space)), LitI("N"), In(O0Q),
              Opt(In(Punct)), Star(In(Space)),
              Grp(1, Rep(In(CI(Upper \cup Digits \cup {"-"})), 10, -1))>>), text)

clean_endorsement_number(raw) ==
    LET \* (CLASS|POLICY|ACC)\b
        stop == Cat(<<Grp(1, Alt(<<Lit("CLASS"), Lit("POLICY"), Lit("ACC")>>)),
                      WordB>>)
        \* (JAN|FEB|MAR|APR|MAY|JUN|JUL|AUG|SEP|OCT|NOV|DEC)([A-Z]?)(\d{1,4})
        month == Cat(<<Grp(1, Alt(<<Lit("JAN"), Lit("FEB"), Lit("MAR"),
                                    Lit("APR"), Lit("MAY"), Lit("JUN"),
                                    Lit("JUL"), Lit("AUG"), Lit("SEP"),
                                    Lit("OCT"), Lit("NOV"), Lit("DEC")>>)),
                       Grp(2, Opt(In(Upper))), Grp(3, Rep(In(Digits), 1, 4))>>)
    IN IF raw = <<>> THEN <<>>
       ELSE \* re.split(...)[0], re.sub(r'[\s_]+', '', ...), re.sub(r'-+', '-', ...)
            \* and the three replacements
            Bind(Replace(Replace(Replace(
                     Sub(Plus(In({"-"})), S("-"),
                         RemoveChars(SplitHead(stop, UpperStr(raw)), Space \cup {"_"})),
                     S("TNOV"), S("NOV")), S("TNO"), S("NOV")), S("RNOV"), S("NOV")),
                 LAMBDA fixed :
            Bind(ReMatch(month, fixed), LAMBDA m :
                IF m.ok
                THEN Replace(Group(fixed, m, 1) \o S("-") \o Group(fixed, m, 2)
                                \o Group(fixed, m, 3), S("--"), S("-"))
                ELSE fixed))

extract_endorsement_number_dn(text) ==
    LET \* ENO+R[S5]?\s*(?:N[O0Q])?[.:;]?\s*([A-Z0-9\-_ ]+)
        re == Cat(<<LitI("EN"), Plus(In(CI({"O"}))), LitI("R"), Opt(In(CI({"S", "5"}))),
                    Star(In(Space)), Opt(Cat(<<LitI("N"), In(O0Q)>>)),
                    Opt(In(Punct)), Star(In(Space)),
                    Grp(1, Plus(In(CI(Upper \cup Digits \cup {"-", "_", " "}))))>>)
    IN Bind(Search(re, text), LAMBDA raw :
           clean_endorsement_number(IF raw.ok THEN Strip(Group(text, raw, 1)) ELSE <<>>))

extract_insured_or_agent(text) ==
    LET \* (?:INSURED|CUSTOMER)\s+([A-Z ]{6,40})
        re == Cat(<<Alt(<<Lit("INSURED"), Lit("CUSTOMER")>>), Plus(In(Space)),
                    Grp(1, Rep(In(Upper \cup {" "}), 6, 40))>>)
        \* \bFLAT\b|\bROOM\b|\bFLOOR\b
        address == Alt(<<Cat(<<WordB, Lit("FLAT"), WordB>>),
                         Cat(<<WordB, Lit("ROOM"), WordB>>),
                         Cat(<<WordB, Lit("FLOOR"), WordB>>)>>)
    IN Bind(Search(re, text), LAMBDA m :
           IF ~m.ok THEN <<>>
           ELSE Strip(SplitHead(address, Strip(Group(text, m, 1)))))

extract_insurance_class(text) ==
    LET \* CLAS[S]?\s*([0-9OQ]{2,3})[- ]*([A-Z ]+HELPER)
        re == Cat(<<LitI("CLAS"), Opt(LitI("S")), Star(In(Space)),
                    Grp(1, Rep(In(CI(Digits \cup {"O", "Q"})), 2, 3)),
                    Star(In({"-", " "})),
                    Grp(2, Cat(<<Plus(In(CI(Upper \cup {" "}))), LitI("HELPER")>>))>>)
        code(m) == Replace(Replace(Group(text, m, 1), S("O"), S("0")), S("Q"), S("0"))
        cls(m) == Replace(Replace(Replace(UpperStr(Group(text, m, 2)),
                              S("OOMESTIC"), S("DOMESTIC")),
                              S("DQMESTIC"), S("DOMESTIC")),
                              S("XELPER"), S("HELPER"))
    IN Bind(Search(re, text), LAMBDA m :
           IF ~m.ok THEN <<>> ELSE code(m) \o S(" ") \o cls(m))

\* the patterns of detect_copy_types, in the order of the dict: a label,
\* then \s*C[O0]P[YV]
COPY_PATTERNS ==
    LET copy(label) == Cat(<<label, Star(In(Space)), LitI("C"), In(CI({"O", "0"})),
                             LitI("P"), In(CI({"Y", "V"}))>>)
    IN << <<"manager", copy(Cat(<<LitI("MANAG"), In(CI({"E", "A"})), LitI("R")>>))>>,
          <<"agent", copy(LitI("AGENT"))>>,
          <<"account", copy(LitI("ACCOUNT"))>>,
          <<"file", copy(LitI("FILE"))>> >>

\* the set of copy labels found in the text
detect_copy_types(text) ==
    Bind(COPY_PATTERNS, LAMBDA patterns :
        {patterns[i][1] : i \in {j \in 1..Len(patterns) :
                                     Search(patterns[j][2], text).ok}})

\* The orders in which a set can be iterated: the order of a Python set of
\* strings follows the strings' hashes, which differ from process to process.
Orders(set) ==
    {p \in [1..Cardinality(set) -> set] : \A i, j \in DOMAIN p : p[i] = p[j] => i = j}

\* the copy types iterated by extract_manager_financials: the detected set,
\* or {"manager"} when it is empty
CopyTypesOf(text) ==
    Bind(detect_copy_types(text), LAMBDA copy_types :
        IF copy_types = {} THEN {"manager"} ELSE copy_types)

\* an extraction that fills the figures it did not find with 0.0 instead of
\* returning no line item
extract_manager_financials_padded(text, order) ==
    LET gross == Cat(<<LitI("GROSS"), Plus(In(Space)), LitI("PREMIUM")>>)
        number == Cat(<<WordB, Rep(In(Digits), 2, 4), Opt(In({".", ",", " "})),
                        Rep(In(Digits), 0, 2), WordB>>)
        val(n) == ParseFloat(Replace(RemoveChars(n, {" "}), S(","), S(".")))
        over50(v) == v.k # "ValueError" /\ FLess(Fin(S("50"), <<>>), v)
    IN IF ~Search(gross, text).ok THEN <<>>
       ELSE Bind(SelectSeq(MapSeq(FindAll(number, text), val), over50), LAMBDA found :
            Bind([i \in 1..5 |-> Zero] \o found, LAMBDA values :
            Bind(Len(values), LAMBDA n :
                [i \in 1..Len(order) |->
                    [gross_premium |-> values[n - 4],
                     commission |-> values[n - 3],
                     overriding_insurer |-> values[n - 2],
                     cost |-> values[n - 1],
                     profit |-> values[n],
                     category |-> order[i]]])))

\* an extraction that ignores the copy labels and tags its one line item
\* manager
extract_manager_financials_manager(text, order) ==
    LET gross == Cat(<<LitI("GROSS"), Plus(In(Space)), LitI("PREMIUM")>>)
        number == Cat(<<WordB, Rep(In(Digits), 2, 4), Opt(In({".", ",", " "})),
                        Rep(In(Digits), 0, 2), WordB>>)
        val(n) == ParseFloat(Replace(RemoveChars(n, {" "}), S(","), S(".")))
        over50(v) == v.k # "ValueError" /\ FLess(Fin(S("50"), <<>>), v)
    IN IF ~Search(gross, text).ok THEN <<>>
       ELSE Bind(SelectSeq(MapSeq(FindAll(number, text), val), over50), LAMBDA values :
            Bind(Len(values), LAMBDA n :
                IF n < 5 THEN <<>>
                ELSE <<[gross_premium |-> values[n - 4],
                        commission |-> values[n - 3],
                        overriding_insurer |-> values[n - 2],
                        cost |-> values[n - 1],
                        profit |-> values[n],
                        category |-> "manager"]>>))

\* extract_manager_financials; `order` is the order in which the set of
\* copy types is iterated
extract_manager_financials(text, order) ==
    LET \* GROSS\s+PREMIUM
        gross == Cat(<<LitI("GROSS"), Plus(In(Space)), LitI("PREMIUM")>>)
        \* \b\d{2,4}[., ]?\d{0,2}\b
        number == Cat(<<WordB, Rep(In(Digits), 2, 4), Opt(In({".", ",", " "})),
                        Rep(In(Digits), 0, 2), WordB>>)
        \* the loop over nums: the floats > 50, in the order of the text
        val(n) == ParseFloat(Replace(RemoveChars(n, {" "}), S(","), S(".")))
        over50(v) == v.k # "ValueError" /\ FLess(Fin(S("50"), <<>>), v)
    IN IF ~Search(gross, text).ok THEN <<>>
       ELSE Bind(SelectSeq(MapSeq(FindAll(number, text), val), over50), LAMBDA values :
            Bind(Len(values), LAMBDA n :
                IF n < 5 THEN <<>>
                ELSE [i \in 1..Len(order) |->
                         [gross_premium |-> values[n - 4],
                          commission |-> values[n - 3],
                          overriding_insurer |-> values[n - 2],
                          cost |-> values[n - 1],
                          profit |-> values[n],
                          category |-> order[i]]]))

\* a debit-note parser whose record has no financials key
parse_debit_note_text_header(raw_text, order) ==
    Bind(normalize_text(raw_text), LAMBDA text :
        [account_number |-> extract_account_number_dn(text),
         policy_number |-> extract_policy_number(text),
         endorsement_number |-> extract_endorsement_number_dn(text),
         insured_or_agent |-> extract_insured_or_agent(text),
         issue_date |-> <<>>,
         insurance_class |-> extract_insurance_class(text)])

\* The record of parse_debit_note_text: the fields are set in the dict
\* literal, then account_number, insurance_class and endorsement_number are
\* set again from a second cleaning pass.
parse_debit_note_text(raw_text, order) ==
    LET \* DATE[:;]?\s*(\d{1,2}\s+\w+\s+\d{4})
        date == Cat(<<LitI("DATE"), Opt(In({":", ";"})), Star(In(Space)),
                      Grp(1, Cat(<<Rep(In(Digits), 1, 2), Plus(In(Space)),
                                   Plus(In(Word)), Plus(In(Space)),
                                   Rep(In(Digits), 4, 4)>>))>>)
    IN Bind(normalize_text(raw_text), LAMBDA text :
           [account_number |-> clean_account_number(extract_account_number_dn(text)),
            policy_number |-> extract_policy_number(text),
            endorsement_number |->
                clean_endorsement_number(extract_endorsement_number_dn(text)),
            insured_or_agent |->
                Bind(extract_insured_or_agent(text), LAMBDA name :
                    IF name # <<>> THEN name ELSE <<>>),
            issue_date |-> dn_extract_first(date, text),
            insurance_class |->
                Replace(Replace(Replace(extract_insurance_class(text),
                    S("0O3"), S("003")), S("O03"), S("003")), S("0o3"), S("003")),
            financials |-> extract_manager_financials(text, order)])

\* -------------------------------------- ocr/account_statement_parser.py

TEXT_OCR_CORRECTIONS ==
    << <<"i1", "11">>, <<"Noyember", "November">>, <<"20z5", "2025">>,
       <<"EOWARD", "EDWARD">>, <<"LEYEL", "LEVEL">>,
       <<"MQNGKOK", "MONGKOK">>, <<"MONGKOX", "MONGKOK">>,
       <<"XQWLOON", "KOWLOON">>, <<"XOWI_OON_", "KOWLOON">>,
       <<"S2E", "SZE">> >>

NUMERIC_OCR_CORRECTIONS ==
    << <<"O", "0">>, <<"Q", "0">>, <<"l", "1">>, <<"I", "1">>,
       <<"7o", "70">>, <<"QQ", "00">> >>

\* apply_ocr_corrections(text, numeric_only=True): the numeric corrections
\* follow the text corrections
apply_ocr_corrections_numeric(text) ==
    ReplaceAll(ReplaceAll(text, TEXT_OCR_CORRECTIONS, 1), NUMERIC_OCR_CORRECTIONS, 1)

\* apply_ocr_corrections(text) with numeric_only=False, the only way the
\* parser calls it
apply_ocr_corrections(text) == ReplaceAll(text, TEXT_OCR_CORRECTIONS, 1)

\* None and a present value, for the fields that may be None
None == [none |-> TRUE]
Some(x) == [none |-> FALSE, v |-> x]

\* int(ds) for a digit string of up to four digits
DigitsToInt(ds) ==
    LET d(i) == IF i > Len(ds) THEN 0 ELSE DigitVal(ds[Len(ds) + 1 - i])
    IN d(1) + 10 * d(2) + 100 * d(3) + 1000 * d(4)

\* "try: return <v> / except ValueError: <handler>", a raised ValueError
\* being the value <<"raise">>
Caught(v, handler) == IF v = <<"raise">> THEN handler ELSE v

\* datetime.strptime(s, '%d %B %Y').strftime('%Y-%m-%d'), or <<"raise">>
\* when strptime raises ValueError (no match, text left over, day 31 of a
\* 30-day month, year 0).  %Y of strftime is the C library's: glibc writes
\* the year without padding, so the year 999 comes out as "999".
StrpStrf(s) ==
    LET MONTHS == <<"january", "february", "march", "april", "may", "june", "july",
                    "august", "september", "october", "november", "december">>
        \* the regular expression strptime compiles from '%d %B %Y':
        \* (3[0-1]|[1-2]\d|0[1-9]|[1-9]| [1-9])\s+(january|...|december)\s+(\d\d\d\d)
        \* matched without regard to case; the whole string has to be consumed
        re == Cat(<<Grp(1, Alt(<<Cat(<<Lit("3"), In({"0", "1"})>>),
                                 Cat(<<In({"1", "2"}), In(Digits)>>),
                                 Cat(<<Lit("0"), In(Digits \ {"0"})>>),
                                 In(Digits \ {"0"}),
                                 Cat(<<Lit(" "), In(Digits \ {"0"})>>)>>)),
                    Plus(In(Space)),
                    Grp(2, Alt([i \in 1..12 |-> LitI(MONTHS[i])])),
                    Plus(In(Space)),
                    Grp(3, Rep(In(Digits), 4, 4)), EndZ>>)
        leap(y) == y % 4 = 0 /\ (y % 100 # 0 \/ y % 400 = 0)
        days(mo, y) == IF mo = 2 THEN (IF leap(y) THEN 29 ELSE 28)
                       ELSE IF mo \in {4, 6, 9, 11} THEN 30 ELSE 31
        two(n) == <<DigitChr(n \div 10), DigitChr(n % 10)>>
        month(name) == CHOOSE i \in 1..12 : S(MONTHS[i]) = name
        \* datetime(y, mo, d) and its strftime
        strftime(d, mo, y, year) ==
            IF y < 1 \/ d > days(mo, y) THEN <<"raise">>
            ELSE NoLeadZeros(year) \o S("-") \o two(mo) \o S("-") \o two(d)
        strptime(m) ==
            IF ~m.ok THEN <<"raise">>
            ELSE strftime(DigitsToInt(Strip(Group(s, m, 1))),
                          month(MapSeq(Group(s, m, 2), ToLower)),
                          DigitsToInt(Group(s, m, 3)), Group(s, m, 3))
    IN strptime(ReMatch(re, s))

\* \d{1,2}\s+[A-Za-z]+\s+\d{4}
DayMonthYear ==
    Cat(<<Rep(In(Digits), 1, 2), Plus(In(Space)), Plus(In(Letters)),
          Plus(In(Space)), Rep(In(Digits), 4, 4)>>)

extract_issue_date(text0) ==
    LET \* Issued Date\s*[:]?\s*.*?(\d{1,2}\s+[A-Za-z]+\s+\d{4}); the class
        \* [::] of the source also holds the full-width colon, which is not
        \* a character of the model
        re == Cat(<<LitI("Issued Date"), Star(In(Space)), Opt(In({":"})),
                    Star(In(Space)), Lazy(Dot, 0, -1), Grp(1, DayMonthYear)>>)
    IN Bind(apply_ocr_corrections(text0), LAMBDA text :
       Bind(Search(re, text), LAMBDA m :
           IF m.ok THEN Caught(StrpStrf(Group(text, m, 1)), <<>>) ELSE <<>>))

RECURSIVE DueDateFrom(_, _, _)
\* the loop of extract_premium_due_date from line i on (lines are numbered
\* from 1 here): the first line holding 'PREMIUM DUE DATE' whose previous
\* line parses as a date decides, else the issue date is the fallback
DueDateFrom(lines, i, text) ==
    IF i > Len(lines) THEN extract_issue_date(text)
    ELSE IF Contains(UpperStr(lines[i]), S("PREMIUM DUE DATE")) /\ i > 1
         THEN Bind(Strip(lines[i - 1]), LAMBDA date_line :
                  Caught(StrpStrf(date_line),
                         Caught(StrpStrf(apply_ocr_corrections(date_line)),
                                DueDateFrom(lines, i + 1, text))))
         ELSE DueDateFrom(lines, i + 1, text)

extract_premium_due_date(text0) ==
    Bind(apply_ocr_corrections(text0), LAMBDA text :
        DueDateFrom(SplitLines(text), 1, text))

\* extract_address: the loop sets `capture` at the first line that starts
\* with a date, skips empty lines and date lines, and breaks at the first
\* line holding 'EFFECTIVE DATE'
extract_address(text) ==
    LET address(lines, isDate) ==
            LET n == Len(lines)
                skip(i) == lines[i] = <<>> \/ isDate[i]
                stop == First(1, n, LAMBDA i :
                                  ~skip(i) /\ Contains(lines[i], S("EFFECTIVE DATE")))
                start == First(1, n, LAMBDA i : lines[i] # <<>> /\ isDate[i])
                kept == {i \in 1..n : start < i /\ i < stop /\ ~skip(i)}
            IN Join([k \in 1..Cardinality(kept) |-> lines[Nth(kept, k)]], S(" "))
    IN Bind(MapSeq(SplitLines(text), Strip), LAMBDA lines :
           \* re.match(r'\d{1,2}\s+[A-Za-z]+\s+\d{4}', line)
           address(lines, MapSeq(lines, LAMBDA line : ReMatch(DayMonthYear, line).ok)))

extract_account_number(text0) ==
    LET \* ACCOUNT NUMBER\s*[:]?\s*([A-Z0-9]+)
        re == Cat(<<LitI("ACCOUNT NUMBER"), Star(In(Space)), Opt(In({":"})),
                    Star(In(Space)), Grp(1, Plus(In(CI(Upper \cup Digits))))>>)
    IN Bind(apply_ocr_corrections(text0), LAMBDA text :
       Bind(Search(re, text), LAMBDA m :
           IF m.ok THEN Group(text, m, 1) ELSE S("N/A")))

GLOBAL_OCR_REPLACEMENTS ==
    << <<"T,", "TJ">>, <<"Tj", "TJ">>, <<"t,", "TJ">>, <<"T.", "TJ">>,
       <<"PFF25o", "PFF250">>, <<"Ro", "R0">>, <<"Q", "0">> >>

clean_global_ocr(text) == ReplaceAll(text, GLOBAL_OCR_REPLACEMENTS, 1)

\* clean_number without the test for a spaced thousand
clean_number_unspaced(raw0) ==
    IF raw0 = <<>> THEN Zero
    ELSE FloatOrZero(KeepChars(
             Replace(Replace(Replace(Strip(raw0), S("Q"), S("0")), S("O"), S("0")),
                     S("l"), S("1")),
             Digits \cup {"."}))

clean_number(raw0) ==
    LET \* ^(\d)\s+(\d{3})\s+(\d{2})$
        spaced == Cat(<<Bol, Grp(1, In(Digits)), Plus(In(Space)),
                        Grp(2, Rep(In(Digits), 3, 3)), Plus(In(Space)),
                        Grp(3, Rep(In(Digits), 2, 2)), Eol>>)
        \* re.sub(r"\s+", "", s), s.replace(",", ""), re.sub(r"[^0-9.]", "", s)
        s4(s1) == KeepChars(RemoveChars(RemoveChars(s1, Space), {","}),
                            Digits \cup {"."})
    IN IF raw0 = <<>> THEN Zero
       ELSE Bind(Strip(raw0), LAMBDA raw :
            Bind(ReMatch(spaced, raw), LAMBDA spaced_match :
                IF spaced_match.ok
                THEN ParseFloat(Group(raw, spaced_match, 1)
                                \o Group(raw, spaced_match, 2)
                                \o S(".") \o Group(raw, spaced_match, 3))
                ELSE FloatOrZero(s4(Replace(Replace(Replace(raw,
                         S("Q"), S("0")), S("O"), S("0")), S("l"), S("1"))))))

extract_policy_nature_pairs(big_row_text) ==
    LET \* ([A-Za-z0-9,\-]+)\s+([\dOQol.,]+)\) with re.IGNORECASE
        pattern == Cat(<<Grp(1, Plus(In(Letters \cup Digits \cup {",", "-"}))),
                         Plus(In(Space)),
                         Grp(2, Plus(In(CI(Digits \cup {"O", "Q", "o", "l", ".", ","})))),
                         Lit(")")>>)
        pair(m) ==
            [policy_number |->
                 Replace(Replace(Replace(
                     RemoveChars(RemoveChars(Group(big_row_text, m, 1), {" "}), {","}),
                     S("o"), S("0")), S("O"), S("0")), S("l"), S("1")),
             nature |->
                 FloatOrZero(RemoveChars(Replace(Replace(Replace(Replace(
                     Group(big_row_text, m, 2), S("O"), S("0")), S("Q"), S("0")),
                     S("o"), S("0")), S("l"), S("1")), {","}))]
    IN MapSeq(FindIter(pattern, big_row_text), pair)

\* ^\d{2}/\d{2}/\d{4}$
date_pattern ==
    Cat(<<Bol, Rep(In(Digits), 2, 2), Lit("/"), Rep(In(Digits), 2, 2), Lit("/"),
          Rep(In(Digits), 4, 4), Eol>>)
\* ^B[\w\-?]+$ with re.IGNORECASE
debit_pattern == Cat(<<Bol, LitI("B"), Plus(In(Word \cup {"-", "?"})), Eol>>)

\* re.search(r'\d', line)
HasDigit(line) == \E i \in 1..Len(line) : line[i] \in Digits

\* [l.strip() for l in text.splitlines() if l.strip()]
LinesOf(text) == NonEmpty(MapSeq(SplitLines(text), Strip))

extract_header_premium_from_block(text) ==
    Bind(LinesOf(text), LAMBDA lines :
    Bind(First(1, Len(lines), LAMBDA j : ReMatch(date_pattern, lines[j]).ok), LAMBDA i :
        IF i <= Len(lines) /\ i > 1 /\ HasDigit(lines[i - 1])
        THEN clean_number(lines[i - 1])
        ELSE Zero))

\* extract_header_entry: the list of the header entry, empty for None
extract_header_entry(text) ==
    LET \* EFFECTIVE\s+DATE\s+DEBIT\s+NOTE\s+NO\.\s*(\d{2}/\d{2}/\d{4})\s+(B[\w\-?]+)
        re == Cat(<<LitI("EFFECTIVE"), Plus(In(Space)), LitI("DATE"), Plus(In(Space)),
                    LitI("DEBIT"), Plus(In(Space)), LitI("NOTE"), Plus(In(Space)),
                    LitI("NO."), Star(In(Space)),
                    Grp(1, Cat(<<Rep(In(Digits), 2, 2), Lit("/"),
                                 Rep(In(Digits), 2, 2), Lit("/"),
                                 Rep(In(Digits), 4, 4)>>)),
                    Plus(In(Space)),
                    Grp(2, Cat(<<LitI("B"), Plus(In(Word \cup {"-", "?"}))>>))>>)
    IN Bind(Search(re, text), LAMBDA header_match :
           IF ~header_match.ok THEN <<>>
           ELSE <<[effective_date |-> Group(text, header_match, 1),
                   debit_note |-> Some(Group(text, header_match, 2)),
                   premium |-> extract_header_premium_from_block(text)]>>)

RECURSIVE ScanLines(_, _)
\* the while loop of extract_date_debit_premium from line i on (lines are
\* numbered from 1 here): `debit` says that line i + 1 is taken as the debit
\* note, j is the index after that step, `premium` that line j + 1 is taken
\* as the premium
ScanLines(lines, i) ==
    IF i > Len(lines) THEN <<>>
    ELSE IF ~ReMatch(date_pattern, lines[i]).ok THEN ScanLines(lines, i + 1)
    ELSE Bind(i + 1 <= Len(lines) /\ ReMatch(debit_pattern, lines[i + 1]).ok,
              LAMBDA debit :
         Bind(IF debit THEN i + 1 ELSE i, LAMBDA j :
         Bind(/\ j + 1 <= Len(lines)
              /\ ~ReMatch(date_pattern, lines[j + 1]).ok
              /\ ~ReMatch(debit_pattern, lines[j + 1]).ok
              /\ HasDigit(lines[j + 1]), LAMBDA premium :
             <<[effective_date |-> lines[i],
                debit_note |-> IF debit THEN Some(lines[i + 1]) ELSE None,
                premium |-> IF premium THEN clean_number(lines[j + 1]) ELSE Zero]>>
             \o ScanLines(lines, (IF premium THEN j + 1 ELSE j) + 1))))

RECURSIVE ScanLinesLagging(_, _)
\* a scan that takes the debit note but does not step over its line, so
\* that the line looked at for the premium is the debit note again
ScanLinesLagging(lines, i) ==
    IF i > Len(lines) THEN <<>>
    ELSE IF ~ReMatch(date_pattern, lines[i]).ok THEN ScanLinesLagging(lines, i + 1)
    ELSE Bind(i + 1 <= Len(lines) /\ ReMatch(debit_pattern, lines[i + 1]).ok,
              LAMBDA debit :
         Bind(/\ i + 1 <= Len(lines)
              /\ ~ReMatch(date_pattern, lines[i + 1]).ok
              /\ ~ReMatch(debit_pattern, lines[i + 1]).ok
              /\ HasDigit(lines[i + 1]), LAMBDA premium :
             <<[effective_date |-> lines[i],
                debit_note |-> IF debit THEN Some(lines[i + 1]) ELSE None,
                premium |-> IF premium THEN clean_number(lines[i + 1]) ELSE Zero]>>
             \o ScanLinesLagging(lines, (IF premium THEN i + 1 ELSE i) + 1)))

extract_date_debit_premium_lagging(text) == ScanLinesLagging(LinesOf(text), 1)

extract_date_debit_premium(text) == ScanLines(LinesOf(text), 1)

\* the (policy, nature) pairs of the block between PREMIUM and TOTAL HXS,
\* none when the text has no such block
policy_nature_pairs_of(text) ==
    LET \* PREM[1I]UM\s*(.*?)(?:T[O0]TAL)\s+HXS with re.DOTALL | re.IGNORECASE
        big_row == Cat(<<LitI("PREM"), In(CI({"1", "I"})), LitI("UM"), Star(In(Space)),
                         Grp(1, Lazy(DotAll, 0, -1)),
                         LitI("T"), In(CI({"O", "0"})), LitI("TAL"),
                         Plus(In(Space)), LitI("HXS")>>)
    IN Bind(Search(big_row, text), LAMBDA big_row_match :
           IF big_row_match.ok
           THEN extract_policy_nature_pairs(Group(text, big_row_match, 1))
           ELSE <<>>)

\* the header entry, if any, then the column entries
structured_entries_of(text) ==
    extract_header_entry(text) \o extract_date_debit_premium(text)

\* a parse_entries that keeps only the entries that have a pair
parse_entries_paired(normalized_text) ==
    Bind(clean_global_ocr(normalized_text), LAMBDA text :
    Bind(policy_nature_pairs_of(text), LAMBDA policy_nature_pairs :
    Bind(structured_entries_of(text), LAMBDA structured_entries :
        [i \in 1..(IF Len(policy_nature_pairs) < Len(structured_entries)
                   THEN Len(policy_nature_pairs) ELSE Len(structured_entries)) |->
            [effective_date |-> structured_entries[i].effective_date,
             debit_note |-> structured_entries[i].debit_note,
             policy_number |-> Some(policy_nature_pairs[i].policy_number),
             nature |-> Some(policy_nature_pairs[i].nature),
             premium |-> structured_entries[i].premium]])))

parse_entries(normalized_text) ==
    Bind(clean_global_ocr(normalized_text), LAMBDA text :
    Bind(policy_nature_pairs_of(text), LAMBDA policy_nature_pairs :
    Bind(structured_entries_of(text), LAMBDA structured_entries :
        [i \in 1..Len(structured_entries) |->
            [effective_date |-> structured_entries[i].effective_date,
             debit_note |-> structured_entries[i].debit_note,
             policy_number |-> IF i <= Len(policy_nature_pairs)
                               THEN Some(policy_nature_pairs[i].policy_number)
                               ELSE None,
             nature |-> IF i <= Len(policy_nature_pairs)
                        THEN Some(policy_nature_pairs[i].nature)
                        ELSE None,
             premium |-> structured_entries[i].premium]])))

\* a parser that also warns of an address it did not find
parse_account_statement_text_address(raw_text) ==
    Bind(apply_ocr_corrections(raw_text), LAMBDA text :
    Bind(parse_entries(text), LAMBDA entries :
        [issue_date |-> extract_issue_date(text),
         premium_due_date |-> extract_premium_due_date(text),
         account_number |-> extract_account_number(text),
         address |-> extract_address(text),
         total_premium_due |->
             Round2(FSum([i \in 1..Len(entries) |-> entries[i].premium])),
         entries |-> entries,
         warnings |->
             (IF \E i \in 1..Len(entries) :
                    \/ entries[i].policy_number.none
                    \/ entries[i].policy_number.v = <<>>
              THEN <<S("Some policy numbers missing or unreliable.")>> ELSE <<>>)
             \o (IF extract_address(text) = <<>>
                 THEN <<S("Address missing.")>> ELSE <<>>)]))

parse_account_statement_text(raw_text) ==
    Bind(apply_ocr_corrections(raw_text), LAMBDA text :
    Bind(parse_entries(text), LAMBDA entries :
        [issue_date |-> extract_issue_date(text),
         premium_due_date |-> extract_premium_due_date(text),
         account_number |-> extract_account_number(text),
         address |-> extract_address(text),
         total_premium_due |->
             Round2(FSum([i \in 1..Len(entries) |-> entries[i].premium])),
         entries |-> entries,
         warnings |->
             IF \E i \in 1..Len(entries) :
                    \/ entries[i].policy_number.none
                    \/ entries[i].policy_number.v = <<>>
             THEN <<S("Some policy numbers missing or unreliable.")>> ELSE <<>>]))

\* ---------------------------------------- ocr/renewal_notice_parser.py

normalize_ocr_text(raw_text) ==
    LET \* " ".join(line.split())
        collapse(line) == Join(SplitWs(line), S(" "))
        lines(text) == NonEmpty(MapSeq(Split(text, "\n"), Strip))
    IN IF raw_text = <<>> THEN <<>>
       ELSE Join(MapSeq(lines(Replace(raw_text, S("\r"), S("\n"))), collapse), S("\n"))

\* extract_first of the renewal parser: group 1 if the pattern has a group
\* that matched, else the whole match
rn_extract_first(re, text) ==
    Bind(Search(re, text), LAMBDA match :
        IF ~match.ok THEN <<>>
        ELSE IF match.caps[1] # <<0, 0>> THEN Strip(Group(text, match, 1))
        ELSE Strip(Group0(text, match)))

\* \d{2}/\d{2}/\d{4}
SlashDate ==
    Cat(<<Rep(In(Digits), 2, 2), Lit("/"), Rep(In(Digits), 2, 2), Lit("/"),
          Rep(In(Digits), 4, 4)>>)

\* {label}.*?(\d{2}/\d{2}/\d{4}) with re.IGNORECASE | re.DOTALL
extract_date_after(label, text) ==
    rn_extract_first(Cat(<<LitI(label), Lazy(DotAll, 0, -1), Grp(1, SlashDate)>>), text)

extract_policy_number_r(text) ==
    LET \* POLICY\s*NO\.?\s*[:\-]?\s*([A-Z0-9\-]+)
        re == Cat(<<LitI("POLICY"), Star(In(Space)), LitI("NO"), Opt(In({"."})),
                    Star(In(Space)), Opt(In({":", "-"})), Star(In(Space)),
                    Grp(1, Plus(In(CI(Upper \cup Digits \cup {"-"}))))>>)
    IN Bind(Search(re, text), LAMBDA match :
           IF ~match.ok THEN <<>> ELSE Strip(RemoveChars(Group(text, match, 1), {" "})))

extract_ac_code(text) ==
    \* ACICODE\s+([A-Z0-9]+)
    rn_extract_first(Cat(<<LitI("ACICODE"), Plus(In(Space)),
                           Grp(1, Plus(In(CI(Upper \cup Digits))))>>), text)

extract_insured_name(text) ==
    LET \* CLASS\s+OF\s+INSURANCE
        class == Cat(<<LitI("CLASS"), Plus(In(Space)), LitI("OF"), Plus(In(Space)),
                       LitI("INSURANCE")>>)
        \* \bROOM\b|\bBLOCK\b|\bFLAT\b|\bUNIT\b
        address == Alt(<<Cat(<<WordB, LitI("ROOM"), WordB>>),
                         Cat(<<WordB, LitI("BLOCK"), WordB>>),
                         Cat(<<WordB, LitI("FLAT"), WordB>>),
                         Cat(<<WordB, LitI("UNIT"), WordB>>)>>)
    IN \* \bINSURED\b and \bPOLICY\s*NO
       Bind(Search(Cat(<<WordB, LitI("INSURED"), WordB>>), text), LAMBDA start :
       Bind(Search(Cat(<<WordB, LitI("POLICY"), Star(In(Space)), LitI("NO")>>), text),
            LAMBDA end :
           IF ~start.ok \/ ~end.ok THEN <<>>
           ELSE Strip(StripChars(
                    SplitHead(address,
                              Sub(class, <<>>, SubSeq(text, start.end, end.start - 1))),
                    {" ", "{"}))))

extract_insurance_class_r(text) ==
    \* \bBUSINESS\s+INSURANCE\b
    rn_extract_first(Cat(<<WordB, LitI("BUSINESS"), Plus(In(Space)),
                           LitI("INSURANCE"), WordB>>), text)

\* clean_money: the digits of raw, in order, as one number
clean_money(raw) ==
    IF raw = <<>> THEN Zero
    ELSE \* re.sub(r"[^\d\s,]", "", raw), then "".join(re.findall(r"\d+", raw))
         Bind(KeepChars(KeepChars(raw, Digits \cup Space \cup {","}), Digits),
              LAMBDA digits : IF digits = <<>> THEN Zero ELSE ParseFloat(digits))

extract_total_earning(text) ==
    LET \* TOTAL.*?\n(.*)
        re == Cat(<<LitI("TOTAL"), Lazy(Dot, 0, -1), Lit("\n"), Grp(1, Star(Dot))>>)
    IN Bind(Search(re, text), LAMBDA match :
           IF ~match.ok THEN Zero ELSE clean_money(Group(text, match, 1)))

extract_renewal_premium(text) ==
    LET \* RENEWAL\s+PREMIUM.*?(\d[\d\s,]+) with re.IGNORECASE | re.DOTALL
        re == Cat(<<LitI("RENEWAL"), Plus(In(Space)), LitI("PREMIUM"),
                    Lazy(DotAll, 0, -1),
                    Grp(1, Cat(<<In(Digits), Plus(In(Digits \cup Space \cup {","}))>>))>>)
    IN Bind(Search(re, text), LAMBDA match :
           IF match.ok THEN clean_money(Group(text, match, 1)) ELSE Zero)

\* the corrections of fix_ocr_numbers, in the order of the dict
NUMBER_CORRECTIONS ==
    << <<"Q", "0">>, <<"o", "0">>, <<"O", "0">>, <<"z", "2">>, <<"Z", "2">>,
       <<"l", "1">>, <<"|", "1">>, <<"I", "1">> >>

fix_ocr_numbers(line) == ReplaceAll(line, NUMBER_CORRECTIONS, 1)

\* A call that returns a value, and a call that ends in an exception.
Returned(v) == [raised |-> FALSE, error |-> "", value |-> v]
Raises(e) == [raised |-> TRUE, error |-> e, value |-> <<>>]

\* The body of the loop over amount_lines for one line: the largest of the
\* numbers of the line, 0.0 without a number.  float() of a number string
\* that is empty once its commas are removed raises ValueError, which
\* nothing catches: the result is then Raised.
AmountOfLine(line) ==
    LET \* [\d,]+\.\d+|[\d,]+
        number == Alt(<<Cat(<<Plus(In(Digits \cup {","})), Lit("."), Plus(In(Digits))>>),
                        Plus(In(Digits \cup {","}))>>)
    IN Bind(FindAll(number, fix_ocr_numbers(line)), LAMBDA num_strs :
           IF Len(num_strs) = 0 THEN Zero
           ELSE Bind(MapSeq(num_strs, LAMBDA s : ParseFloat(RemoveChars(s, {","}))),
                     LAMBDA nums :
                    IF \E j \in 1..Len(nums) : nums[j] = Raised THEN Raised
                    ELSE MaxFloat(nums)))

\* extract_renewal_entries: the list of entries, or the exception
extract_renewal_entries(text) ==
    LET \* EMPLOYEES.*?(?=TOTAL) with re.IGNORECASE | re.DOTALL
        employees == Cat(<<LitI("EMPLOYEES"), Lazy(DotAll, 0, -1), Look(LitI("TOTAL"))>>)
        \* re.sub(r"[^A-Za-z0-9\s\-/\(\)]", "", labels_line)
        labels_line_clean(labels_line) ==
            KeepChars(labels_line, Letters \cup Digits \cup Space \cup {"-", "/", "(", ")"})
        \* re.split(r"\s(?=\d[\.\-]?)", labels_line_clean)
        split == Cat(<<In(Space), Look(Cat(<<In(Digits), Opt(In({".", "-"}))>>))>>)
    IN Bind(Search(employees, text), LAMBDA block_match :
       IF ~block_match.ok THEN Returned(<<>>)
       ELSE Bind(NonEmpty(MapSeq(Split(Group0(text, block_match), "\n"), Strip)),
                 LAMBDA lines :
            Bind(NonEmpty(MapSeq(ReSplit(split, labels_line_clean(
                     IF Len(lines) > 1 THEN lines[2] ELSE <<>>)), Strip)),
                 LAMBDA labels :
            Bind(MapSeq(Drop(lines, 2), AmountOfLine), LAMBDA amounts :
                IF \E i \in 1..Len(amounts) : amounts[i] = Raised
                THEN Raises("ValueError: could not convert string to float")
                ELSE Returned([i \in 1..Len(labels) |->
                         [label |-> labels[i],
                          amount |-> IF i <= Len(amounts) THEN amounts[i]
                                     ELSE Zero]])))))

\* parse_renewal_notice_text(raw_text): the record, or the exception of
\* extract_renewal_entries, which passes through
parse_renewal_notice_text(raw_text) ==
    Bind(normalize_ocr_text(raw_text), LAMBDA text :
    Bind(extract_renewal_entries(text), LAMBDA renewal_entries :
        IF renewal_entries.raised THEN renewal_entries
        ELSE Returned(
            [issue_date |-> extract_date_after("ISSUE DATE", text),
             insured |-> extract_insured_name(text),
             insurance_class |-> extract_insurance_class_r(text),
             policy_number |-> extract_policy_number_r(text),
             expiry_date |-> extract_date_after("EXPIRY DATE", text),
             ac_code |-> extract_ac_code(text),
             renewal_entries |-> renewal_entries.value,
             total_earning |-> extract_total_earning(text),
             renewal_premium |-> extract_renewal_premium(text),
             uploaded_by |-> <<>>])))

\* ------------------------------------------------ ocr/document_parser.py

\* a dispatcher without the closed set of tags: whatever is not a debit
\* note or an account statement goes to the renewal parser
parse_document_open(raw_text, doc_type, order) ==
    IF doc_type = "debit_note"
    THEN [parser |-> "debit_note", out |-> Returned(parse_debit_note_text(raw_text, order))]
    ELSE IF doc_type = "account_statement"
    THEN [parser |-> "account_statement",
          out |-> Returned(parse_account_statement_text(raw_text))]
    ELSE [parser |-> "renewal_notice", out |-> parse_renewal_notice_text(raw_text)]

\* parse_document(raw_text, doc_type): which parser ran ("" for none) and
\* how the call ended; `order` is the iteration order of the set of copy
\* types, which the debit-note parser depends on
parse_document(raw_text, doc_type, order) ==
    IF doc_type = "debit_note"
    THEN [parser |-> "debit_note", out |-> Returned(parse_debit_note_text(raw_text, order))]
    ELSE IF doc_type = "account_statement"
    THEN [parser |-> "account_statement",
          out |-> Returned(parse_account_statement_text(raw_text))]
    ELSE IF doc_type = "renewal_notice"
    THEN [parser |-> "renewal_notice", out |-> parse_renewal_notice_text(raw_text)]
    ELSE [parser |-> "", out |-> Raises("ValueError: Unsupported document type")]

\* ------------------------------------------------------------ the inputs

\* at most this many fragments make up a text
MaxFrags == 2
\* at most this many tokens make up a number string
MaxTokens == 3
\* the length of the longest run of digits in a number string
MaxDigits == 310

\* the type tags of a request: the three parse_document knows, and others
Supported == {"debit_note", "account_statement", "renewal_notice"}
DocTypes == Supported \cup {"Debit_Note", "RENEWAL_NOTICE", "invoice", ""}

\* What the recognition of the pages of a document of each type may read:
\* labelled fields as the forms print them, with misreadings.
Fragments(doc_type) ==
    CASE doc_type = "debit_note" ->
           <<"ACCOUNT NO. PFF250123 (T01) POLICY NO. HK-1234567890\n",
             "ACCQUNT N0: pff2501 To1\n",
             "ENORS NO. TNOV 1234 ACCOUNT NO\n",
             "INSURED CHAN TAI MAN FLAT A\n",
             "CLASS 0O3 - OOMESTIC XELPER\n",
             "DATE: 15 November 2025\n",
             "GROSS PREMIUM 1,000.50 200 75 60 120\n",
             "MANAGER COPY\n",
             "AGENT C0PY\n",
             "51 52.5\n">>
      [] doc_type = "account_statement" ->
           <<"Issued Date: 15 November 2025\n",
             "15 Noyember 20z5\nPREMIUM DUE DATE\n",
             "5 May 0999\npremium due date\n",
             "Issued Date 30 February 2025\n",
             "ACCOUNT NUMBER: PFF250123\n",
             "FLAT A EOWARD BUILDING\nMQNGKOK\n",
             "EFFECTIVE DATE DEBIT NOTE NO. 01/02/2025 B-1234\n",
      "EFFECTIVE DATE DEBIT NOTE NO.\n",
             "1 296 20\n01/02/2025\nB-1235\n450.00\n",
             "31/12/2024\n12,500\n",
             "PREMIUM HK-12o3 1,2OO.5) POL-2 3OO) TOTAL HXS\n">>
      [] doc_type = "renewal_notice" ->
           <<"ISSUE DATE 15/11/2025\n",
             "EXPIRY DATE: 99/99/9999\n",
             "INSURED CHAN TAI MAN ROOM 5\n",
             "CLASS OF INSURANCE  BUSINESS INSURANCE\r\n",
             "POLICY NO. HK-1234-A\n",
             "ACICODE AC12\n",
             "EMPLOYEES\n1 Clerk 2 Manager 3 Driver\n12,500\n3O,OOO.5O 7\nTOTAL\n42,500\n",
             "EMPLOYEES\n1 A 2 B\n,\nTOTAL\n",
             "RENEWAL PREMIUM HK$ 1,234\n",
             "TOTAL EARNINGS\n55,000\n">>
      [] OTHER -> <<"ACCOUNT NO. PFF250123\n", "ISSUE DATE 15/11/2025\n">>

\* the pieces of the strings handed to clean_number
NumberTokens ==
    <<S("1 "), S("296 "), S("20"), S("12,500"), S("Q12O"), S("1.2"), S(".3"), S("."),
      S("abc"), S(" "), S("l"), [i \in 1..MaxDigits |-> "9"]>>

\* the pieces of the texts handed to the normalizers
NormalizerFragments ==
    <<"To1", "T01)", "(T01)", "ii1", "i1", "Roz", "COPV", "OOMEST1C HELPER",
      "PFF 250", " a  b ", "\n", "\r\n\t">>

\* the concatenations of at most n of the pieces
Concatenations(pieces, n) ==
    {Join([i \in 1..Len(choice) |-> pieces[choice[i]]], <<>>) :
        choice \in UNION {[1..k -> 1..Len(pieces)] : k \in 0..n}}

\* the texts of a document of a type
Texts(doc_type) ==
    Concatenations(MapSeq(Fragments(doc_type), S), MaxFrags)

\* What the recognition of a debit note may read around its figures: the
\* GROSS PREMIUM row in one line or one figure a line, with figures above
\* and below the floor, and the copy markers as printed and as misread.
FinancialFragments ==
    <<"GROSS PREMIUM 1000 200 150 130 120\nMANAGER COPY\n",
      "gross  premium\n1000.50\n200\n150\n130\n120.25\n",
      "GROSS PREMIUM 1000 200 50 30 120\nMANAGER COPY\n",
      "GROSS PREMIUM 200 75 160 170 180 190\n",
      "GROSS PREMIUM 10 20 10 20 10 20 10 20 10 20\n",
      "AGENT C0PY FILECOPY\n",
      "ACCOUNT COPY\n">>

\* What the recognition of an account statement may read: the columns of
\* date, debit note and premium lines, complete and incomplete, the header
\* entry, the block of policy and nature pairs, and the labelled fields.
StatementFragments ==
    <<"01/02/2025\nB-1235\n450.00\n",
      "31/12/2024\nb-12?4\n12,500\n 15/03/2025 \n\nB9\n1 296 20\n",
      "01/01/2025\nB-77\n",
      "31/12/2024\n0.75\n",
      "99.999\n",
      "EFFECTIVE DATE DEBIT NOTE NO. 01/02/2025 B-1234\n",
      "EFFECTIVE DATE DEBIT NOTE NO.\n",
      "PREMIUM HK-12o3 1,2OO.5) POL-2 3OO) TOTAL HXS\n",
      "PREMIUM , 300) TOTAL HXS\n",
      "PREMIUM HK-9 75) TOTAL HXS\n",
      "ACCOUNT NUMBER: PFF250123\n",
      "FLAT A EOWARD BUILDING\nMQNGKOK\n",
      "Issued Date: 15 November 2025\n">>

\* at most this many amount lines follow the label line of a block
MaxAmountLines == 2

\* the label lines of the EMPLOYEES block of a renewal notice
LabelLines ==
    <<"1 Clerk 2 Manager 3 Driver", "1 Clerk 2 Manager", "1 Office-Staff",
      "1 A 2 B 3 C 4 D">>

\* the lines between the label line and TOTAL, as the recognition may read
\* them
AmountLines == <<"12,500", "3O,OOO.5O 7", "7 1,2OO", "42.5 43", "n/a", ",">>

\* the text of a block: EMPLOYEES, the label line, the amount lines, TOTAL
RenewalBlock(labels_line, amount_lines) ==
    S("EMPLOYEES\n") \o S(labels_line) \o S("\n")
        \o Join(MapSeq(amount_lines, LAMBDA line : S(line) \o S("\n")), <<>>)
        \o S("TOTAL\n")

\* ------------------------------------------------------- the state machine

VARIABLES
    pc,         \* where the call is: "call", "done", and "twice" for a second pass
    doc_type,   \* the type tag of the request
    raw_text,   \* the text argument
    result,     \* what the call gave
    again,      \* what a second normalization of the result gave
    reader,     \* the module global _reader of ocr_utils
    engines,    \* how many times easyocr.Reader was constructed
    thread,     \* the frame of ocr_pdf_to_text in each thread of the process
    tables      \* the child rows of the database, by table and parent id

vars == <<pc, doc_type, raw_text, result, again, reader, engines, thread, tables>>

\* what the parsers never touch, and its value in a process that has
\* served no request on an empty database
server_vars == <<reader, engines, thread, tables>>
Fresh ==
    /\ reader = [none |-> TRUE]
    /\ engines = 0
    /\ thread = <<>>
    /\ tables = <<>>

\* nothing computed yet
Idle == <<"idle">>

\* the normalizer each parser applies to raw_text first
Normalizer(type, text) ==
    CASE type = "debit_note" -> normalize_text(text)
      [] type = "account_statement" -> apply_ocr_corrections(text)
      [] type = "renewal_notice" -> normalize_ocr_text(text)

\* A request to parse a text as a document of a type.
Init ==
    /\ pc = "call"
    /\ doc_type \in DocTypes
    /\ raw_text \in Texts(doc_type)
    /\ result = Idle
    /\ again = Idle
    /\ Fresh

\* parse_document(raw_text, doc_type) runs to its end.  The set of copy
\* types of a debit note is iterated in an order the run does not fix.
ParseDocument ==
    /\ pc = "call"
    /\ \E order \in IF doc_type = "debit_note"
                    THEN Orders(CopyTypesOf(normalize_text(raw_text)))
                    ELSE {<<>>} :
           result' = parse_document(raw_text, doc_type, order)
    /\ pc' = "done"
    /\ UNCHANGED <<doc_type, raw_text, again>>
    /\ UNCHANGED server_vars

Next == ParseDocument

Spec == Init /\ [][Next]_vars

\* A call of clean_number on a number string.
InitNumber ==
    /\ pc = "call"
    /\ doc_type = "account_statement"
    /\ raw_text \in Concatenations(NumberTokens, MaxTokens)
    /\ result = Idle
    /\ again = Idle
    /\ Fresh

CleanNumber ==
    /\ pc = "call"
    /\ result' = clean_number(raw_text)
    /\ pc' = "done"
    /\ UNCHANGED <<doc_type, raw_text, again>>
    /\ UNCHANGED server_vars

NextNumber == CleanNumber

SpecNumber == InitNumber /\ [][NextNumber]_vars

\* A text normalized by the normalizer of a type, and normalized again.
InitNormalize ==
    /\ pc = "call"
    /\ doc_type \in Supported
    /\ raw_text \in Concatenations(MapSeq(NormalizerFragments, S), MaxFrags)
    /\ result = Idle
    /\ again = Idle
    /\ Fresh

Normalize ==
    /\ pc = "call"
    /\ result' = Normalizer(doc_type, raw_text)
    /\ pc' = "done"
    /\ UNCHANGED <<doc_type, raw_text, again>>
    /\ UNCHANGED server_vars

NormalizeAgain ==
    /\ pc = "done"
    /\ again' = Normalizer(doc_type, result)
    /\ pc' = "twice"
    /\ UNCHANGED <<doc_type, raw_text, result>>
    /\ UNCHANGED server_vars

NextNormalize == Normalize \/ NormalizeAgain

SpecNormalize == InitNormalize /\ [][NextNormalize]_vars

\* A debit note parsed, and the same text parsed once more by another
\* process.
InitFinancials ==
    /\ pc = "call"
    /\ doc_type = "debit_note"
    /\ raw_text \in Concatenations(MapSeq(FinancialFragments, S), MaxFrags)
    /\ result = Idle
    /\ again = Idle
    /\ Fresh

ParseDebitNote ==
    /\ pc = "call"
    /\ \E order \in Orders(CopyTypesOf(normalize_text(raw_text))) :
           result' = parse_document(raw_text, doc_type, order)
    /\ pc' = "done"
    /\ UNCHANGED <<doc_type, raw_text, again>>
    /\ UNCHANGED server_vars

\* the other process iterates its set of copy types in its own order
ParseDebitNoteAgain ==
    /\ pc = "done"
    /\ \E order \in Orders(CopyTypesOf(normalize_text(raw_text))) :
           again' = parse_document(raw_text, doc_type, order)
    /\ pc' = "twice"
    /\ UNCHANGED <<doc_type, raw_text, result>>
    /\ UNCHANGED server_vars

NextFinancials == ParseDebitNote \/ ParseDebitNoteAgain

SpecFinancials == InitFinancials /\ [][NextFinancials]_vars

\* The column scan of an account statement's text, then the parse of the
\* statement.
InitStatement ==
    /\ pc = "call"
    /\ doc_type = "account_statement"
    /\ raw_text \in Concatenations(MapSeq(StatementFragments, S), MaxFrags)
    /\ result = Idle
    /\ again = Idle
    /\ Fresh

ExtractDateDebitPremium ==
    /\ pc = "call"
    /\ result' = extract_date_debit_premium(raw_text)
    /\ pc' = "done"
    /\ UNCHANGED <<doc_type, raw_text, again>>
    /\ UNCHANGED server_vars

ParseStatement ==
    /\ pc = "done"
    /\ again' = parse_document(raw_text, doc_type, <<>>)
    /\ pc' = "twice"
    /\ UNCHANGED <<doc_type, raw_text, result>>
    /\ UNCHANGED server_vars

NextStatement == ExtractDateDebitPremium \/ ParseStatement

SpecStatement == InitStatement /\ [][NextStatement]_vars

\* A call of extract_renewal_entries on the text of a block.
InitRenewal ==
    /\ pc = "call"
    /\ doc_type = "renewal_notice"
    /\ \E n \in 1..Len(LabelLines) :
       \E amount_lines \in UNION {[1..k -> 1..Len(AmountLines)] : k \in 0..MaxAmountLines} :
           raw_text = RenewalBlock(LabelLines[n],
                                   [i \in DOMAIN amount_lines |-> AmountLines[amount_lines[i]]])
    /\ result = Idle
    /\ again = Idle
    /\ Fresh

ExtractRenewalEntries ==
    /\ pc = "call"
    /\ result' = extract_renewal_entries(raw_text)
    /\ pc' = "done"
    /\ UNCHANGED <<doc_type, raw_text, again>>
    /\ UNCHANGED server_vars

NextRenewal == ExtractRenewalEntries

SpecRenewal == InitRenewal /\ [][NextRenewal]_vars

\* ----------------------------------------------------------- properties

\* C1: parse_document hands a text tagged debit_note, account_statement or
\* renewal_notice to the parser of that tag; for every other tag, a case
\* variant and the empty tag among them, no parser runs and the call ends
\* in the unsupported-document-type error.
C1_Routing ==
    pc = "done" =>
        IF doc_type \in {"debit_note", "account_statement", "renewal_notice"}
        THEN result.parser = doc_type
        ELSE /\ result.parser = ""
             /\ result.out = Raises("ValueError: Unsupported document type")

\* a case variant of a tag was refused, no parser having run
C1_Refused ==
    /\ pc = "done"
    /\ doc_type = "Debit_Note"
    /\ result.parser = ""
    /\ result.out.raised

\* C2: for a supported tag parse_document returns a record whatever the
\* text is; it never raises.
C2_NeverRaises ==
    pc = "done" /\ doc_type \in Supported => ~result.out.raised

\* C3: the record returned for a supported tag has exactly the keys of its
\* type, and none of its values is None.
C3_KeySet ==
    LET keys == CASE doc_type = "debit_note" ->
                       {"account_number", "policy_number", "endorsement_number",
                        "insured_or_agent", "issue_date", "insurance_class",
                        "financials"}
                  [] doc_type = "account_statement" ->
                       {"issue_date", "premium_due_date", "account_number", "address",
                        "total_premium_due", "entries", "warnings"}
                  [] doc_type = "renewal_notice" ->
                       {"issue_date", "insured", "insurance_class", "policy_number",
                        "expiry_date", "ac_code", "renewal_entries", "total_earning",
                        "renewal_premium", "uploaded_by"}
    IN pc = "done" /\ doc_type \in Supported /\ ~result.out.raised =>
           /\ DOMAIN result.out.value = keys
           /\ \A k \in keys : ToString(result.out.value[k]) # ToString(None)

\* an account statement came back with an entry whose policy number is
\* None: the record itself has every key and a value under each
C3_RecordWithEntries ==
    /\ pc = "done"
    /\ doc_type = "account_statement"
    /\ \E i \in 1..Len(result.out.value.entries) :
           result.out.value.entries[i].policy_number = None

\* C4: for the empty text and a supported tag parse_document returns the
\* record of its type with every text field empty, every number 0.0 and
\* every list empty.
C4_EmptyText ==
    pc = "done" /\ raw_text = <<>> /\ doc_type \in Supported =>
        /\ ~result.out.raised
        /\ result.out.value =
             CASE doc_type = "debit_note" ->
                    [account_number |-> <<>>, policy_number |-> <<>>,
                     endorsement_number |-> <<>>, insured_or_agent |-> <<>>,
                     issue_date |-> <<>>, insurance_class |-> <<>>,
                     financials |-> <<>>]
               [] doc_type = "account_statement" ->
                    [issue_date |-> <<>>, premium_due_date |-> <<>>,
                     account_number |-> <<>>, address |-> <<>>,
                     total_premium_due |-> Zero, entries |-> <<>>,
                     warnings |-> <<>>]
               [] doc_type = "renewal_notice" ->
                    [issue_date |-> <<>>, insured |-> <<>>, insurance_class |-> <<>>,
                     policy_number |-> <<>>, expiry_date |-> <<>>, ac_code |-> <<>>,
                     renewal_entries |-> <<>>, total_earning |-> Zero,
                     renewal_premium |-> Zero, uploaded_by |-> <<>>]

\* C5: a scalar field whose label pattern does not match the text is the
\* empty string, or 0.0 for a number.  A pattern cannot match a text that
\* does not hold the fixed letters its label starts with, so each field is
\* empty in a record parsed from a text without those letters.
C5_EmptyOnMiss ==
    LET missing(label) == ~Contains(UpperStr(raw_text), S(label))
        field == result.out.value
    IN pc = "done" /\ doc_type \in Supported /\ ~result.out.raised =>
        CASE doc_type = "debit_note" ->
               /\ missing("ACC") => field.account_number = <<>>
               /\ missing("POLICY") => field.policy_number = <<>>
               /\ missing("EN") => field.endorsement_number = <<>>
               /\ missing("INSURED") /\ missing("CUSTOMER") =>
                      field.insured_or_agent = <<>>
               /\ missing("DATE") => field.issue_date = <<>>
               /\ missing("CLAS") => field.insurance_class = <<>>
          [] doc_type = "account_statement" ->
               /\ missing("ISSUED DATE") => field.issue_date = <<>>
               /\ missing("ISSUED DATE") /\ missing("PREMIUM DUE DATE") =>
                      field.premium_due_date = <<>>
               /\ missing("ACCOUNT NUMBER") => field.account_number = <<>>
          [] doc_type = "renewal_notice" ->
               /\ missing("ISSUE DATE") => field.issue_date = <<>>
               /\ missing("EXPIRY DATE") => field.expiry_date = <<>>
               /\ missing("INSURED") => field.insured = <<>>
               /\ missing("BUSINESS") => field.insurance_class = <<>>
               /\ missing("POLICY") => field.policy_number = <<>>
               /\ missing("ACICODE") => field.ac_code = <<>>
               /\ missing("TOTAL") => field.total_earning = Zero
               /\ missing("RENEWAL") => field.renewal_premium = Zero

\* C6: clean_number returns a finite float >= 0 for every string.  (A float
\* of the model is never negative; what is left to hold is that it is
\* finite.)
C6_Finite ==
    pc = "done" => result.k = "fin"

\* C7: clean_number(raw) is the three-step policy: a stripped token of one
\* digit, whitespace, three digits, whitespace, two digits is
\* digit+thousands.cents; otherwise Q and O become 0 and l becomes 1, then
\* everything but digits and '.' is dropped; what remains is parsed as a
\* float, 0.0 if it is empty or malformed.  '1 296 20' gives 1296.20,
\* '12,500' gives 12500.0, '' gives 0.0 and 'Q12O' gives 120.0.
C7_ThreeStepPolicy ==
    LET token == Strip(raw_text)
        groups == SplitWs(token)
        allDigits(s) == \A i \in 1..Len(s) : s[i] \in Digits
        spaced == /\ Len(groups) = 3
                  /\ \A g \in 1..3 : allDigits(groups[g])
                  /\ <<Len(groups[1]), Len(groups[2]), Len(groups[3])>> = <<1, 3, 2>>
        substituted == [i \in 1..Len(token) |->
                           CASE token[i] \in {"Q", "O"} -> "0"
                             [] token[i] = "l" -> "1"
                             [] OTHER -> token[i]]
        kept == SelectSeq(substituted, LAMBDA c : c \in Digits \cup {"."})
        dots == Cardinality({i \in 1..Len(kept) : kept[i] = "."})
        policy == IF spaced THEN MkFloat(groups[1] \o groups[2], groups[3])
                  ELSE IF kept = <<>> \/ dots > 1 \/ dots = Len(kept) THEN Zero
                  ELSE ParseFloat(kept)
    IN pc = "done" =>
        /\ result = policy
        /\ raw_text = S("1 296 20") => result = Fin(S("1296"), S("2"))
        /\ raw_text = S("12,500") => result = Fin(S("12500"), <<>>)
        /\ raw_text = <<>> => result = Zero
        /\ raw_text = S("Q12O") => result = Fin(S("120"), <<>>)

\* the spaced thousand was read as 1296.20
C7_SpacedThousand ==
    /\ pc = "done"
    /\ raw_text = S("1 296 20")
    /\ result = Fin(S("1296"), S("2"))

\* C8: each normalizer is idempotent: normalizing the normalized text
\* changes nothing.
C8_Idempotent ==
    pc = "twice" => again = result

\* C9: normalize_text and apply_ocr_corrections return a text that holds
\* none of the trigger substrings of their table unchanged, and every
\* normalizer returns the empty string for the empty string.
C9_NoTriggerNoChange ==
    LET table == IF doc_type = "debit_note" THEN DN_REPLACEMENTS
                 ELSE TEXT_OCR_CORRECTIONS
        triggered == \E n \in 1..Len(table) : Contains(raw_text, S(table[n][1]))
    IN pc \in {"done", "twice"} =>
        /\ doc_type \in {"debit_note", "account_statement"} /\ ~triggered =>
               result = raw_text
        /\ raw_text = <<>> => result = <<>>

\* a text with letters and digits but no trigger went through the
\* account-statement normalizer
C9_Untouched ==
    /\ pc = "done"
    /\ doc_type = "account_statement"
    /\ raw_text = S("OOMEST1C HELPER") \o S("PFF 250")
    /\ result = raw_text

\* C10: every date field of a returned record is the empty string or a date
\* written YYYY-MM-DD.
C10_DatesNormalized ==
    LET iso(s) == /\ Len(s) = 10
                  /\ s[5] = "-" /\ s[8] = "-"
                  /\ \A i \in {1, 2, 3, 4, 6, 7, 9, 10} : s[i] \in Digits
        date(s) == s = <<>> \/ iso(s)
        field == result.out.value
    IN pc = "done" /\ doc_type \in Supported /\ ~result.out.raised =>
        CASE doc_type = "debit_note" -> date(field.issue_date)
          [] doc_type = "account_statement" ->
               /\ date(field.issue_date)
               /\ date(field.premium_due_date)
               /\ \A i \in 1..Len(field.entries) : date(field.entries[i].effective_date)
          [] doc_type = "renewal_notice" ->
               date(field.issue_date) /\ date(field.expiry_date)

\* ------------------------------------------ properties of the financials

\* the text extract_manager_financials is given
NormalizedText == normalize_text(raw_text)

\* the financial line items of a parse
Financials(parse) == parse.out.value.financials

\* the five figures of a line item, in the order of the form's columns
Figures(item) ==
    <<item.gross_premium, item.commission, item.overriding_insurer, item.cost,
      item.profit>>

\* the text holds the label: GROSS, white space, PREMIUM, in any case
HasGrossPremium(text) ==
    \E i \in 1..Len(text) : \E j \in (i + 6)..Len(text) :
        /\ StartsWithAt(UpperStr(text), i, S("GROSS"))
        /\ StartsWithAt(UpperStr(text), j, S("PREMIUM"))
        /\ \A k \in (i + 5)..(j - 1) : text[k] \in Space

\* The qualifying numeric tokens of a text, in document order: the values
\* of the white-space separated tokens that are numbers (digits, with at
\* most one decimal point between digits) greater than 50.
QualifyingTokens(text) ==
    LET number(tok) == /\ tok[1] \in Digits /\ tok[Len(tok)] \in Digits
                       /\ ParseFloat(tok).k = "fin"
        numbers == SelectSeq(SplitWs(text), number)
    IN SelectSeq(MapSeq(numbers, ParseFloat),
                 LAMBDA v : FLess(Fin(S("50"), <<>>), v))

\* the last n elements of a sequence
LastOf(xs, n) == SubSeq(xs, Len(xs) - n + 1, Len(xs))

\* C11: for a normalized debit-note text with a GROSS PREMIUM label and at
\* least five numeric tokens greater than 50, every financial line item
\* has gross_premium, commission, overriding_insurer, cost and profit equal,
\* in that order, to the last five qualifying tokens of the text, each
\* white-space separated number being a token of its own.
C11_LastFiveTokens ==
    pc = "done" /\ HasGrossPremium(NormalizedText)
                /\ Len(QualifyingTokens(NormalizedText)) >= 5 =>
        \A i \in 1..Len(Financials(result)) :
            Figures(Financials(result)[i]) = LastOf(QualifyingTokens(NormalizedText), 5)

\* C12: the list of financial line items is empty whenever the text has no
\* GROSS PREMIUM label or fewer than five numeric values greater than 50:
\* no figure is made up.
C12_EmptyBelowFive ==
    pc = "done" /\ (\/ ~HasGrossPremium(NormalizedText)
                    \/ Len(QualifyingTokens(NormalizedText)) < 5) =>
        Financials(result) = <<>>

\* the record the form's example row stands for
ExampleRecord ==
    [category |-> "manager",
     gross_premium |-> Fin(S("1000"), <<>>), commission |-> Fin(S("200"), <<>>),
     overriding_insurer |-> Fin(S("50"), <<>>), cost |-> Fin(S("30"), <<>>),
     profit |-> Fin(S("120"), <<>>)]

\* the text holds the example row under its label, and the manager's marker
HoldsExample(text) ==
    /\ HasGrossPremium(text)
    /\ Contains(text, S("1000 200 50 30 120"))
    /\ Contains(UpperStr(text), S("MANAGER COPY"))

\* C13 as stated: a text block with 'GROSS PREMIUM ... 1000 200 50 30 120'
\* and a MANAGER COPY marker parsed as debit_note has exactly one financial
\* record: manager, 1000, 200, 50, 30, 120.
C13_OneManagerRecord ==
    pc = "done" /\ HoldsExample(NormalizedText) =>
        Financials(result) = <<ExampleRecord>>

\* C13: a text block with 'GROSS PREMIUM ... 1000 200 50 30 120' and a
\* MANAGER COPY marker, and no other digit, parsed as debit_note has no
\* financial record: fewer than five of its values are greater than 50.
C13_BelowFloorNoRecord ==
    pc = "done" /\ HoldsExample(NormalizedText)
                /\ KeepChars(NormalizedText, Digits) = S("10002005030120") =>
        Financials(result) = <<>>

\* the example block was parsed and gave no financial record
C13_ExampleParsed ==
    /\ pc = "done"
    /\ raw_text = S("GROSS PREMIUM 1000 200 50 30 120\nMANAGER COPY\n")
    /\ result.parser = "debit_note"
    /\ Financials(result) = <<>>

\* the categories of the line items of a parse, in the order of the list
CategoriesOf(parse) == MapSeq(Financials(parse), LAMBDA item : item.category)

\* C14: when financials are produced, there is exactly one line item per
\* copy label detected in the text, tagged with it, and all carry the same
\* five figures; with no label detected there is exactly one, tagged
\* manager.
C14_OnePerCopyLabel ==
    LET labels == detect_copy_types(NormalizedText)
        items == Financials(result)
    IN pc = "done" /\ items # <<>> =>
        /\ Len(items) = IF labels = {} THEN 1 ELSE Cardinality(labels)
        /\ {items[i].category : i \in 1..Len(items)} =
               IF labels = {} THEN {"manager"} ELSE labels
        /\ \A i \in 1..Len(items) : Figures(items[i]) = Figures(items[1])

\* a text with the manager, agent and file markers gave three line items
C14_ThreeCopies ==
    /\ pc = "done"
    /\ detect_copy_types(NormalizedText) = {"manager", "agent", "file"}
    /\ Len(Financials(result)) = 3
    /\ Financials(result)[1].gross_premium = Fin(S("1000"), <<>>)

\* the copy labels of a text in the order in which they first occur in it
\* (manager alone when there is none)
DocumentOrder(text) ==
    LET at(i) == Search(COPY_PATTERNS[i][2], text)
        found == {i \in 1..Len(COPY_PATTERNS) : at(i).ok}
        before(i) == Cardinality({j \in found : at(j).start < at(i).start})
    IN IF found = {} THEN <<"manager">>
       ELSE [k \in 1..Cardinality(found) |->
                COPY_PATTERNS[CHOOSE i \in found : before(i) = k - 1][1]]

\* C20: the financial line items of a debit note with several copy labels
\* are in the order in which the labels occur in the text, and a second
\* parse of the same text, in the same or in another process, gives them in
\* the same order.
C20_DocumentOrder ==
    pc = "twice" /\ Financials(result) # <<>> =>
        /\ CategoriesOf(result) = DocumentOrder(NormalizedText)
        /\ CategoriesOf(again) = CategoriesOf(result)

\* ----------------------------------- properties of the statement entries

\* the lines of the text, stripped, the empty ones left out
StatementLines == LinesOf(raw_text)

\* a line of the shape dd/mm/yyyy
IsDateLine(line) ==
    /\ Len(line) = 10
    /\ line[3] = "/" /\ line[6] = "/"
    /\ \A i \in {1, 2, 4, 5, 7, 8, 9, 10} : line[i] \in Digits

\* a debit reference: B or b, then letters, digits, '_', '-' or '?'
IsDebitLine(line) ==
    /\ Len(line) >= 2
    /\ line[1] \in {"B", "b"}
    /\ \A i \in 2..Len(line) : line[i] \in Word \cup {"-", "?"}

\* the premium lines of the columns, and the amounts they stand for
PremiumLines ==
    << <<S("450.00"), Fin(S("450"), <<>>)>>,
       <<S("12,500"), Fin(S("12500"), <<>>)>>,
       <<S("1 296 20"), Fin(S("1296"), S("2"))>>,
       <<S("0.75"), Fin(<<>>, S("75"))>>,
       <<S("99.999"), Fin(S("99"), S("999"))>> >>

IsPremiumLine(line) == \E n \in 1..Len(PremiumLines) : PremiumLines[n][1] = line

PremiumOf(line) ==
    PremiumLines[CHOOSE n \in 1..Len(PremiumLines) : PremiumLines[n][1] = line][2]

\* the text is made of date lines, each followed by a debit reference and
\* a premium line
MadeOfTriples(lines) ==
    /\ Len(lines) % 3 = 0
    /\ \A n \in 1..(Len(lines) \div 3) :
           /\ IsDateLine(lines[3 * n - 2])
           /\ IsDebitLine(lines[3 * n - 1])
           /\ IsPremiumLine(lines[3 * n])

\* C15: for a text made of N date lines, each followed by a debit reference
\* line and a premium line, extract_date_debit_premium returns N entries in
\* document order, entry i with the i-th date, the i-th debit reference and
\* the amount of the i-th premium line; and total_premium_due of a parsed
\* account statement is the sum of the premiums of its entries rounded to
\* 2 decimals.
C15_TriplesInOrder ==
    LET lines == StatementLines
        parsed == again.out.value
    IN pc = "twice" =>
        /\ MadeOfTriples(lines) =>
               /\ Len(result) = Len(lines) \div 3
               /\ \A i \in 1..Len(result) :
                      /\ result[i].effective_date = lines[3 * i - 2]
                      /\ result[i].debit_note = Some(lines[3 * i - 1])
                      /\ result[i].premium = PremiumOf(lines[3 * i])
        /\ parsed.total_premium_due =
               Round2(FSum([i \in 1..Len(parsed.entries) |-> parsed.entries[i].premium]))

\* three triples were scanned and the statement's total is their sum
C15_ThreeTriples ==
    /\ pc = "twice"
    /\ MadeOfTriples(StatementLines)
    /\ Len(result) = 3
    /\ result[3].premium = Fin(S("1296"), S("2"))
    /\ again.out.value.total_premium_due = Fin(S("14246"), S("2"))

\* C16: parse_entries returns one entry per structured (date, debit,
\* premium) entry, in the same order; entry i has the policy_number and the
\* nature of the i-th (policy, nature) pair whatever they are, and an entry
\* beyond the last pair has policy_number None and nature None.
C16_AlignedByIndex ==
    LET text == clean_global_ocr(apply_ocr_corrections(raw_text))
        structured == structured_entries_of(text)
        pairs == policy_nature_pairs_of(text)
        entries == again.out.value.entries
    IN pc = "twice" =>
        /\ Len(entries) = Len(structured)
        /\ \A i \in 1..Len(entries) :
               /\ entries[i].effective_date = structured[i].effective_date
               /\ entries[i].debit_note = structured[i].debit_note
               /\ entries[i].premium = structured[i].premium
               /\ i <= Len(pairs) =>
                      /\ entries[i].policy_number = Some(pairs[i].policy_number)
                      /\ entries[i].nature = Some(pairs[i].nature)
               /\ i > Len(pairs) =>
                      /\ entries[i].policy_number = None
                      /\ entries[i].nature = None

\* two entries and one pair: the second entry has neither policy nor nature
C16_TrailingEntry ==
    /\ pc = "twice"
    /\ Len(again.out.value.entries) = 2
    /\ again.out.value.entries[1].policy_number = Some(S("HK-9"))
    /\ again.out.value.entries[2].policy_number = None
    /\ again.out.value.entries[2].nature = None

\* C17: the warnings of a parsed account statement hold the warning of a
\* missing policy number exactly when an entry has a null or empty
\* policy_number; an empty address, an empty date or an unmatched account
\* number adds no warning, and a statement without entries has none.
C17_WarningIffMissingPolicy ==
    LET parsed == again.out.value
        missing == \E i \in 1..Len(parsed.entries) :
                       \/ parsed.entries[i].policy_number = None
                       \/ parsed.entries[i].policy_number = Some(<<>>)
    IN pc = "twice" =>
        /\ missing => parsed.warnings = <<S("Some policy numbers missing or unreliable.")>>
        /\ ~missing => parsed.warnings = <<>>
        /\ parsed.entries = <<>> => parsed.warnings = <<>>

\* every entry has its policy number, and the statement without address,
\* dates or account number came back with no warning
C17_NoWarning ==
    /\ pc = "twice"
    /\ again.out.value.entries # <<>>
    /\ again.out.value.address = <<>>
    /\ again.out.value.issue_date = <<>>
    /\ again.out.value.account_number = S("N/A")
    /\ again.out.value.warnings = <<>>


\* ------------------------------------- properties of the renewal entries

\* the lines of the block between EMPLOYEES and TOTAL: the label line, then
\* the amount lines
BlockLines ==
    LET lines == NonEmpty(Split(raw_text, "\n"))
    IN SubSeq(lines, 2, Len(lines) - 1)

\* the labels of the label lines
LabelsOfLine ==
    << <<S("1 Clerk 2 Manager 3 Driver"), <<S("1 Clerk"), S("2 Manager"), S("3 Driver")>> >>,
       <<S("1 Clerk 2 Manager"), <<S("1 Clerk"), S("2 Manager")>> >>,
       <<S("1 Office-Staff"), <<S("1 Office-Staff")>> >>,
       <<S("1 A 2 B 3 C 4 D"), <<S("1 A"), S("2 B"), S("3 C"), S("4 D")>> >> >>

\* the numbers an amount line holds once O is read as 0 and the commas are
\* removed
NumbersOfLine ==
    << <<S("12,500"), <<Fin(S("12500"), <<>>)>> >>,
       <<S("3O,OOO.5O 7"), <<Fin(S("30000"), S("5")), Fin(S("7"), <<>>)>> >>,
       <<S("7 1,2OO"), <<Fin(S("7"), <<>>), Fin(S("1200"), <<>>)>> >>,
       <<S("42.5 43"), <<Fin(S("42"), S("5")), Fin(S("43"), <<>>)>> >>,
       <<S("n/a"), <<>> >>,
       <<S(","), <<>> >> >>

\* the entry of a table under a line
Under(table, line) == table[CHOOSE n \in 1..Len(table) : table[n][1] = line][2]

\* the labels and the amount lines of the block
BlockLabels == Under(LabelsOfLine, BlockLines[1])
BlockAmountLines == Tail(BlockLines)

\* C18: extract_renewal_entries returns one entry per label of the label
\* line, in label order, entry i with an amount taken from the i-th amount
\* line; with fewer amount lines than labels the trailing entries have
\* amount 0.0 and every label is still there, in order.
C18_OnePerLabel ==
    pc = "done" =>
        /\ ~result.raised
        /\ Len(result.value) = Len(BlockLabels)
        /\ \A i \in 1..Len(result.value) :
               /\ result.value[i].label = BlockLabels[i]
               /\ i <= Len(BlockAmountLines) =>
                      LET numbers == Under(NumbersOfLine, BlockAmountLines[i])
                      IN result.value[i].amount \in
                             IF numbers = <<>> THEN {Zero}
                             ELSE {numbers[n] : n \in 1..Len(numbers)}
               /\ i > Len(BlockAmountLines) => result.value[i].amount = Zero

\* C19: the amount of an amount line is the largest of the numbers parsed
\* from it after the correction of misread digits and the removal of
\* commas, and 0.0 when the line holds no number.
C19_LargestOfLine ==
    pc = "done" =>
        /\ ~result.raised
        /\ \A i \in 1..Len(result.value) :
               i <= Len(BlockAmountLines) =>
                   LET numbers == Under(NumbersOfLine, BlockAmountLines[i])
                       amount == result.value[i].amount
                   IN IF numbers = <<>> THEN amount = Zero
                      ELSE /\ \E n \in 1..Len(numbers) : amount = numbers[n]
                           /\ \A n \in 1..Len(numbers) : ~FLess(amount, numbers[n])

\* ------------------------------------------------ the recognition engine

\* the bounds of the scans
MaxCalls == 2
MaxPages == 3
MaxThreads == 2

\* what ocr.readtext gives for a page: the list of its paragraphs
PageResults == << <<>>, <<S("AB")>>, <<S("C"), S("D")>> >>

\* the documents of up to n pages, each as the results of its pages
Pdfs(n) ==
    {[i \in DOMAIN pages |-> PageResults[pages[i]]] :
        pages \in UNION {[1..k -> 1..Len(PageResults)] : k \in 0..n}}

\* a thread that is not in ocr_pdf_to_text
Frame0 ==
    [pc |-> "idle", pdf |-> <<>>, new |-> None, ocr |-> None, page |-> 0,
     full_text |-> <<>>, text |-> None, calls |-> 0]

\* no parser is called by ocr_pdf_to_text
NoCall ==
    /\ pc = "idle"
    /\ doc_type = <<>>
    /\ raw_text = <<>>
    /\ result = Idle
    /\ again = Idle

parser_vars == <<pc, doc_type, raw_text, result, again>>

\* the body of the loop over the pages of doc
append_page_before(full_text, page_result) ==
    IF page_result # <<>>
    THEN Join(page_result, S("\n")) \o S("\n") \o full_text
    ELSE full_text
append_page(full_text, page_result) ==
    IF page_result # <<>>
    THEN full_text \o Join(page_result, S("\n")) \o S("\n")
    ELSE full_text

\* ocr_pdf_to_text is entered with one of pdfs, at most limit times
Enter(t, pdfs, limit) ==
    /\ thread[t].pc = "idle"
    /\ thread[t].calls < limit
    /\ \E pdf \in pdfs :
           thread' = [thread EXCEPT ![t] =
                         [Frame0 EXCEPT !.pc = "test", !.pdf = pdf,
                                        !.calls = thread[t].calls + 1]]
    /\ UNCHANGED <<reader, engines, tables>>
    /\ UNCHANGED parser_vars

\* doc = fitz.open(...), for the next call of a process that calls in turn
OcrPdfToText(t) == Enter(t, Pdfs(MaxPages), MaxCalls)

\* the one call of the thread that serves a /scan_pdf request
ScanPdf(t) == Enter(t, {pdf \in Pdfs(MaxPages) : Len(pdf) = 1}, 1)

\* if _reader is None:
GetReaderTestAlways(t) ==
    /\ thread[t].pc = "test"
    /\ thread' = [thread EXCEPT ![t].pc = "construct"]
    /\ UNCHANGED <<reader, engines, tables>>
    /\ UNCHANGED parser_vars
GetReaderTest(t) ==
    /\ thread[t].pc = "test"
    /\ thread' = [thread EXCEPT ![t].pc =
                     IF reader = None THEN "construct" ELSE "return"]
    /\ UNCHANGED <<reader, engines, tables>>
    /\ UNCHANGED parser_vars

\* easyocr.Reader(['en'], gpu=False) gives a new engine
GetReaderConstruct(t) ==
    /\ thread[t].pc = "construct"
    /\ engines' = engines + 1
    /\ thread' = [thread EXCEPT ![t].pc = "assign", ![t].new = Some(engines + 1)]
    /\ UNCHANGED <<reader, tables>>
    /\ UNCHANGED parser_vars

\* _reader = <the new engine>
GetReaderAssign(t) ==
    /\ thread[t].pc = "assign"
    /\ reader' = thread[t].new
    /\ thread' = [thread EXCEPT ![t].pc = "return"]
    /\ UNCHANGED <<engines, tables>>
    /\ UNCHANGED parser_vars

\* return _reader, into ocr; full_text = ""
GetReaderReturn(t) ==
    /\ thread[t].pc = "return"
    /\ thread' = [thread EXCEPT ![t].pc = "pages", ![t].ocr = reader,
                                ![t].page = 1, ![t].full_text = <<>>]
    /\ UNCHANGED <<reader, engines, tables>>
    /\ UNCHANGED parser_vars

\* one turn of the loop: result = ocr.readtext(...) of the page
ReadPage(t) ==
    /\ thread[t].pc = "pages"
    /\ thread[t].page <= Len(thread[t].pdf)
    /\ thread' = [thread EXCEPT
                     ![t].full_text = append_page(@, thread[t].pdf[thread[t].page]),
                     ![t].page = @ + 1]
    /\ UNCHANGED <<reader, engines, tables>>
    /\ UNCHANGED parser_vars

\* return full_text
ReturnText(t) ==
    /\ thread[t].pc = "pages"
    /\ thread[t].page > Len(thread[t].pdf)
    /\ thread' = [thread EXCEPT ![t].pc = "idle",
                                ![t].text = Some(thread[t].full_text)]
    /\ UNCHANGED <<reader, engines, tables>>
    /\ UNCHANGED parser_vars

\* get_reader and the loop of ocr_pdf_to_text, in thread t
Scan(t) ==
    \/ GetReaderTest(t)
    \/ GetReaderConstruct(t)
    \/ GetReaderAssign(t)
    \/ GetReaderReturn(t)
    \/ ReadPage(t)
    \/ ReturnText(t)

\* One thread calls ocr_pdf_to_text, each call after the one before.
InitOcr ==
    /\ NoCall
    /\ reader = None
    /\ engines = 0
    /\ thread = <<Frame0>>
    /\ tables = <<>>

NextOcr == \E t \in DOMAIN thread : OcrPdfToText(t) \/ Scan(t)

SpecOcr == InitOcr /\ [][NextOcr]_vars

\* The threads of the server each serve one /scan_pdf request; a thread
\* may be switched out between any two steps.
InitServer ==
    /\ NoCall
    /\ reader = None
    /\ engines = 0
    /\ thread = [t \in 1..MaxThreads |-> Frame0]
    /\ tables = <<>>

NextServer == \E t \in DOMAIN thread : ScanPdf(t) \/ Scan(t)

SpecServer == InitServer /\ [][NextServer]_vars

\* ------------------------------------- properties of the recognition engine

\* the calls of get_reader that have returned
Returned_ocr == {t \in DOMAIN thread : thread[t].pc \in {"pages", "idle"} /\ thread[t].calls > 0}

\* C21: over the calls of one thread the engine is constructed once, on the
\* first call, every call returns that one handle, and a handle once set is
\* never reset or replaced.
C21_ConstructedOnce ==
    /\ [](/\ engines <= 1
          /\ \A t \in Returned_ocr :
                 engines = 1 /\ reader = Some(1) /\ thread[t].ocr = Some(1))
    /\ [][reader # None => reader' = reader]_vars

\* a second call has got its handle
C21_SecondCall ==
    \E t \in Returned_ocr : thread[t].calls = 2 /\ thread[t].ocr = Some(1)

\* the text of the pages from page i on, as the claim states it
RECURSIVE PageTextFrom(_, _)
PageTextFrom(pdf, i) ==
    IF i > Len(pdf) THEN <<>>
    ELSE (IF pdf[i] = <<>> THEN <<>> ELSE Join(pdf[i], S("\n")) \o S("\n"))
         \o PageTextFrom(pdf, i + 1)

\* C22: the text returned is the texts of the pages in page order, each
\* the paragraphs of the page joined by and ended with a newline, nothing
\* for a page without paragraphs.
C22_PagesInOrder ==
    \A t \in DOMAIN thread :
        thread[t].text # None =>
            thread[t].text = Some(PageTextFrom(thread[t].pdf, 1))

\* a text page, an empty page and another text page were returned
C22_TextEmptyText ==
    \E t \in DOMAIN thread :
        /\ thread[t].text = Some(S("AB\nC\nD\n"))
        /\ Len(thread[t].pdf) = 3
        /\ thread[t].pdf[2] = <<>>

\* C26: with requests in separate threads the engine is constructed at
\* most once and all requests use the same handle.
C26_NoRace ==
    /\ engines <= 1
    /\ \A t, u \in Returned_ocr : thread[t].ocr = thread[u].ocr

\* ------------------------------------------- the header of a debit note

\* lines of the header of a debit note, as the recognition reads them
HeaderFragments ==
    <<"ACCOUNT NO. AB123456 POLICY NO. HK1234567890\n",
      "ACCOUNT NO: sq123456 To1 CLASS o03 DOMESTIC HELPER\n",
      "ENORS NO. NOV-1234 ACCOUNT NO. AB123456 (T01) CLA\n",
      "ENOR NO. TTNO1\n",
      "ENOR NO NOV 12__34 CLASS 0Q3-OOMESTIC XELPER\n",
      "CLASS 003 domestic helper\n",
      "ENOR: dec--7 POLICY NO\n",
      "ACCOUNT NO 12345 (T01) ENO\n">>

\* A debit note with such a header is parsed.
InitHeader ==
    /\ pc = "call"
    /\ doc_type = "debit_note"
    /\ raw_text \in Concatenations(MapSeq(HeaderFragments, S), MaxFrags)
    /\ result = Idle
    /\ again = Idle
    /\ Fresh

NextHeader == ParseDebitNote

SpecHeader == InitHeader /\ [][NextHeader]_vars

\* ------------------------------------- properties of the debit-note header

\* the record of a parse that returned
Parsed == pc = "done" /\ ~result.out.raised
Record == result.out.value

\* how many times k occurs in s
Occurrences(s, k) == Cardinality({i \in 1..Len(s) : StartsWithAt(s, i, k)})

\* C23: the account number is upper-case without O, Q or S, holds the
\* suffix (T01) at most once, and holds it only if the text parsed has a
\* T01 suffix at all.
C23_SuffixOnlyIfDetected ==
    Parsed =>
        /\ Record.account_number = UpperStr(Record.account_number)
        /\ \A i \in 1..Len(Record.account_number) :
               Record.account_number[i] \notin {"O", "Q", "S"}
        /\ Occurrences(Record.account_number, S("(T01)")) <= 1
        /\ Contains(Record.account_number, S("(T01)"))
               => Contains(UpperStr(NormalizedText), S("T01"))

\* C24: the endorsement number holds nothing of the field after it, no
\* whitespace, no underscore and no repeated hyphen.
C24_NoOvercapture ==
    Parsed =>
        /\ \A keyword \in {"CLASS", "POLICY", "ACC"} :
               ~Contains(Record.endorsement_number, S(keyword))
        /\ \A i \in 1..Len(Record.endorsement_number) :
               Record.endorsement_number[i] \notin Space \cup {"_"}
        /\ ~Contains(Record.endorsement_number, S("--"))

\* C25: a non-empty insurance_class is two or three decimal digits, a
\* space and an upper-case phrase that ends in HELPER and has none of the
\* known misreads.
C25_CodeAndPhrase ==
    Parsed /\ Record.insurance_class # <<>> =>
        /\ ReMatch(Cat(<<Rep(In(Digits), 2, 3), Lit(" "),
                         Star(In(Upper \cup {" "})), Lit("HELPER"), EndZ>>),
                   Record.insurance_class).ok
        /\ \A misread \in {"OOMESTIC", "DQMESTIC", "XELPER"} :
               ~Contains(Record.insurance_class, S(misread))

\* C29: the second cleaning pass changes nothing: the record holds the
\* account number and the endorsement number of the first pass.
C29_SecondPassNoOp ==
    Parsed =>
        /\ Record.account_number = extract_account_number_dn(NormalizedText)
        /\ Record.endorsement_number = extract_endorsement_number_dn(NormalizedText)

\* ------------------------------------ the line scan of a statement, by turn

\* lines of the columns of an account statement
ScanFragments ==
    <<"01/02/2025\nB-1235\n450.00\n",
      "31/12/2024\nb-12?4\n12,500\n 15/03/2025 \n\nB9\n1 296 20\n",
      "01/01/2025\nB-77\n",
      "31/12/2024\n0.75\n",
      "99.999\n",
      "01/01/2025\n",
      "B-5\nTOTAL\n">>

\* One turn of the while loop of extract_date_debit_premium at index i
\* (from 0, as in the code; lines[i + 1] is the code's lines[i]): the index
\* and the entries after the turn.
scan_turn_greedy(lines, i, entries) ==
    IF ~ReMatch(date_pattern, lines[i + 1]).ok
    THEN [i |-> i + 1, entries |-> entries]
    ELSE Bind(i + 1 < Len(lines) /\ ReMatch(debit_pattern, lines[i + 2]).ok,
              LAMBDA debit :
         Bind(IF debit THEN i + 1 ELSE i, LAMBDA j :
         Bind(/\ j + 1 < Len(lines)
              /\ ~ReMatch(debit_pattern, lines[j + 2]).ok
              /\ HasDigit(lines[j + 2]), LAMBDA premium :
             [i |-> (IF premium THEN j + 1 ELSE j) + 1,
              entries |-> Append(entries,
                  [effective_date |-> lines[i + 1],
                   debit_note |-> IF debit THEN Some(lines[i + 2]) ELSE None,
                   premium |-> IF premium THEN clean_number(lines[j + 2]) ELSE Zero])])))
scan_turn(lines, i, entries) ==
    IF ~ReMatch(date_pattern, lines[i + 1]).ok
    THEN [i |-> i + 1, entries |-> entries]
    ELSE Bind(i + 1 < Len(lines) /\ ReMatch(debit_pattern, lines[i + 2]).ok,
              LAMBDA debit :
         Bind(IF debit THEN i + 1 ELSE i, LAMBDA j :
         Bind(/\ j + 1 < Len(lines)
              /\ ~ReMatch(date_pattern, lines[j + 2]).ok
              /\ ~ReMatch(debit_pattern, lines[j + 2]).ok
              /\ HasDigit(lines[j + 2]), LAMBDA premium :
             [i |-> (IF premium THEN j + 1 ELSE j) + 1,
              entries |-> Append(entries,
                  [effective_date |-> lines[i + 1],
                   debit_note |-> IF debit THEN Some(lines[i + 2]) ELSE None,
                   premium |-> IF premium THEN clean_number(lines[j + 2]) ELSE Zero])])))

\* A call of extract_date_debit_premium, run turn by turn.
InitScan ==
    /\ pc = "call"
    /\ doc_type = "account_statement"
    /\ raw_text \in Concatenations(MapSeq(ScanFragments, S), MaxFrags)
    /\ result = Idle
    /\ again = Idle
    /\ Fresh

\* lines = [...]; entries = []; i = 0
ScanEnter ==
    /\ pc = "call"
    /\ result' = [lines |-> LinesOf(raw_text), i |-> 0, entries |-> <<>>]
    /\ pc' = "scan"
    /\ UNCHANGED <<doc_type, raw_text, again>>
    /\ UNCHANGED server_vars

\* while i < len(lines): one turn
ScanTurn ==
    /\ pc = "scan"
    /\ result.i < Len(result.lines)
    /\ result' = [lines |-> result.lines] @@ scan_turn(result.lines, result.i, result.entries)
    /\ UNCHANGED <<pc, doc_type, raw_text, again>>
    /\ UNCHANGED server_vars

\* return entries
ScanReturn ==
    /\ pc = "scan"
    /\ ~(result.i < Len(result.lines))
    /\ again' = result.entries
    /\ pc' = "done"
    /\ UNCHANGED <<doc_type, raw_text, result>>
    /\ UNCHANGED server_vars

NextScan == ScanEnter \/ ScanTurn \/ ScanReturn

SpecScan == InitScan /\ [][NextScan]_vars

\* ----------------------------------------------- properties of the line scan

\* the date-shaped lines of the text, in order
DateLines == SelectSeq(LinesOf(raw_text), LAMBDA line : ReMatch(date_pattern, line).ok)

\* the line after the k-th date-shaped line, <<>> at the end of the text
AfterDateLine(k) ==
    LET lines == LinesOf(raw_text)
        at == CHOOSE n \in 1..Len(lines) :
                  /\ ReMatch(date_pattern, lines[n]).ok
                  /\ Cardinality({m \in 1..n : ReMatch(date_pattern, lines[m]).ok}) = k
    IN IF at < Len(lines) THEN lines[at + 1] ELSE <<>>

\* C28: the scan comes to its end, since its index grows at every turn and
\* never passes the number of lines, where the loop is left; and it
\* returns one entry per date-shaped line, in order: a date-shaped line is
\* never taken as the debit note or the premium of the entry before, and
\* an entry whose date line is followed by another date line or by nothing
\* has debit_note None and premium 0.0.
C28_OneEntryPerDateLine ==
    /\ [][pc = "scan" /\ pc' = "scan" => result'.i > result.i]_vars
    /\ [](pc = "scan" => result.i <= Len(result.lines))
    /\ [](pc = "done" =>
            /\ again = extract_date_debit_premium(raw_text)
            /\ Len(again) = Len(DateLines)
            /\ \A k \in 1..Len(again) :
                   /\ again[k].effective_date = DateLines[k]
                   /\ (AfterDateLine(k) = <<>> \/ ReMatch(date_pattern, AfterDateLine(k)).ok)
                          => again[k].debit_note = None /\ again[k].premium = Zero)

\* a date line right after a date line: two entries, the first one bare
C28_DateAfterDate ==
    /\ pc = "done"
    /\ raw_text = S("01/01/2025\n01/02/2025\nB-1235\n450.00\n")
    /\ Len(again) = 2
    /\ again[1].debit_note = None
    /\ again[1].premium = Zero
    /\ again[2].debit_note = Some(S("B-1235"))

\* ------------------------------------------ properties of the header entry

\* the dates written in the text that parse_entries reads, one per row
DatesWritten ==
    FindAll(Cat(<<Rep(In(Digits), 2, 2), Lit("/"), Rep(In(Digits), 2, 2), Lit("/"),
                  Rep(In(Digits), 4, 4)>>),
            clean_global_ocr(apply_ocr_corrections(raw_text)))

\* C27: a row of the text gives one entry, never one from
\* extract_header_entry and another from extract_date_debit_premium: a
\* parsed statement has no more entries than its text has dates.
C27_OneEntryPerRow ==
    pc = "twice" /\ ~again.out.raised =>
        Len(again.out.value.entries) <= Len(DatesWritten)

\* ------------------------------------------------------------ the database

\* the bounds of the database
MaxDocs == 2

\* the parent table of each document type; its child rows are the rows of
\* debit_note_financials, account_statement_entries, renewal_notice_entries
ParentTables == {"debit_notes", "account_statements", "renewal_notices"}

\* the values of the columns of a parent row, and the lists of line items
\* of a form: the items in any order, each at most once
Datas == {"old", "new"}
Items == {"first", "second"}
Children ==
    UNION {{children \in [1..n -> Items] :
               \A i, j \in 1..n : children[i] = children[j] => i = j} :
           n \in 0..Cardinality(Items)}

\* a database with the schema and no row
EmptyTables == [t \in ParentTables |-> [parents |-> <<>>, rows |-> <<>>]]

\* SELECT ... FROM <child table> WHERE <parent>_id = ? ORDER BY id
ChildRows(table, id) ==
    Bind(SelectSeq(table.rows, LAMBDA row : row.parent = id), LAMBDA rows :
        [i \in 1..Len(rows) |-> rows[i].item])

\* INSERT of the parent row, cur.lastrowid, INSERT of each child, commit
insert_rows(table, data, children) ==
    Bind(Len(table.parents) + 1, LAMBDA id :
        [parents |-> Append(table.parents, data),
         rows |-> table.rows \o
                  [i \in 1..Len(children) |-> [parent |-> id, item |-> children[i]]]])

\* UPDATE of the parent row; if children: DELETE of the child rows of the
\* id and INSERT of each child; commit
update_rows(table, id, data, children) ==
    [parents |-> [table.parents EXCEPT ![id] = data],
     rows |-> IF children # <<>>
              THEN SelectSeq(table.rows, LAMBDA row : row.parent # id) \o
                   [i \in 1..Len(children) |-> [parent |-> id, item |-> children[i]]]
              ELSE table.rows]

\* the documents of all types
Documents ==
    UNION {{<<t, id>> : id \in 1..Len(tables[t].parents)} : t \in ParentTables}

\* a document of a type is created from a form
Insert(t) ==
    /\ Cardinality(Documents) < MaxDocs
    /\ \E data \in Datas, children \in Children :
           /\ tables' = [tables EXCEPT ![t] = insert_rows(@, data, children)]
           /\ result' = [call |-> "insert", table |-> t,
                         id |-> Len(tables[t].parents) + 1, children |-> children]
    /\ pc' = "inserted"
    /\ UNCHANGED <<doc_type, raw_text, again, reader, engines, thread>>

\* edit_doc finds the document and updates it from the form
Update(t) ==
    /\ \E id \in 1..Len(tables[t].parents), data \in Datas, children \in Children :
           /\ tables' = [tables EXCEPT ![t] = update_rows(@, id, data, children)]
           /\ result' = [call |-> "update", table |-> t, id |-> id,
                         children |-> children]
    /\ pc' = "updated"
    /\ UNCHANGED <<doc_type, raw_text, again, reader, engines, thread>>

InsertDebitNote == Insert("debit_notes")
InsertAccountStatement == Insert("account_statements")
InsertRenewalNotice == Insert("renewal_notices")
UpdateDebitNote == Update("debit_notes")
UpdateAccountStatement == Update("account_statements")
UpdateRenewalNotice == Update("renewal_notices")

\* The server on a new database file: documents are created and edited.
InitDb ==
    /\ NoCall
    /\ reader = None
    /\ engines = 0
    /\ thread = <<>>
    /\ tables = EmptyTables

NextDb ==
    \/ InsertDebitNote
    \/ InsertAccountStatement
    \/ InsertRenewalNotice
    \/ UpdateDebitNote
    \/ UpdateAccountStatement
    \/ UpdateRenewalNotice

SpecDb == InitDb /\ [][NextDb]_vars

\* ------------------------------------------------ properties of the database

\* C30: after an update of a document its child rows are the children
\* given, in order, also when none is given; and an update leaves the
\* child rows of every other document as they were.
C30_ChildrenReplaced ==
    /\ [](pc = "updated" =>
              ChildRows(tables[result.table], result.id) = result.children)
    /\ [][pc' = "updated" =>
              \A d \in Documents :
                  d # <<result'.table, result'.id>> =>
                      ChildRows(tables'[d[1]], d[2]) = ChildRows(tables[d[1]], d[2])]_vars
====
